---- MODULE Spec2Model ----
(***************************************************************************)
(* Feed engine of ussb / tinyssb: signed 128-byte packets, per-feed header *)
(* and log files, blob side chains.  Two nodes are modelled, the author    *)
(* (holder of the signing keys) and a replica that is fed wire packets.    *)
(*                                                                         *)
(* sha256 and ed25519 are modelled as ideal primitives: a hash is an       *)
(* injective constructor over its input, a signature names the key and the *)
(* bytes it was made over.  A zero-padded byte array is written as its     *)
(* bytes up to the last non-zero one.                                      *)
(***************************************************************************)
EXTENDS Integers, Sequences, FiniteSets, TLC

\* head, log : the .head and .log file of every feed of every node
\* blobs     : the files of every node's _blobs directory
\* arg       : the content handed to the operation under test (ChainSpec)
\* vm        : every node's version manager, with the key store, callbacks,
\*             work files and update_cfg.json it works on (VmSpec)
VARIABLES head, log, blobs, arg, vm

vars == <<head, log, blobs, arg, vm>>

(* ------------------------------ bounds --------------------------------- *)
\* most packets a feed of the model holds
MaxLen == 2
\* most records a failed append may leave behind in one log
MaxTorn == 1
\* longest content of the blob chain round trip
MaxContent == 130
\* most blobs of a chain sent to the replica
MaxSyncBlobs == 3
\* most update blobs of one file feed, most applyup packets of the version
\* control feed, and the number of feeds of the version manager's runs
MaxUpd == 2
MaxApply == 1
MaxFid == 5

(* ------------------------- program constants --------------------------- *)
PLAIN48 == 0
CHAIN20 == 1
ISCHILD == 2
ISCONTN == 3
MKCHILD == 4
CONTDAS == 5
UPDFILE == 7
APPLYUP == 8
PKT_PREFIX == "tiny-v02"
PayloadLen == 48
ChainHeadLen == 28
InlineMax == 27
BlobPayloadLen == 100
PtrLen == 20
VarIntOneByteMax == 252
PYCOM == FALSE

NODES == {"author", "replica"}
FIDS == {1, 2}
ZeroFid == 0

(* ------------------------------ bytes ---------------------------------- *)
Max(S) == CHOOSE x \in S : \A y \in S : y <= x
Zeros(n) == [i \in 1..n |-> 0]
Trim(s) ==
    LET nz == {i \in 1..Len(s) : s[i] # 0}
    IN  IF nz = {} THEN <<>> ELSE SubSeq(s, 1, Max(nz))
\* byte i (0-based) of a zero-padded array written as b
ByteAt(b, i) == IF i < Len(b) THEN b[i + 1] ELSE 0
\* b[from:to] of a zero-padded array at least `to` bytes long
PadSlice(b, from, to) == [i \in 1..(to - from) |-> ByteAt(b, from + i - 1)]
\* s[from:to] of a byte string of known length (Python slice, clipped)
PySlice(s, from, to) ==
    LET t == IF to > Len(s) THEN Len(s) ELSE to
    IN  IF from >= t THEN <<>> ELSE SubSeq(s, from + 1, t)
CeilDiv(a, b) == IF a <= 0 THEN 0 ELSE (a + b - 1) \div b

None == [none |-> TRUE]
IsNone(x) == x = None
Raised(e) == [exc |-> e]
IsRaised(x) == "exc" \in DOMAIN x

(* 20-byte values: raw bytes, or the first 20 bytes of a hash / of a fid *)
Bytes20(s) == [raw20 |-> Trim(s)]
NullPtr == Bytes20(Zeros(PtrLen))
Fid20(fid) == [fid20 |-> fid]

KeyOf(fid) == [sk |-> fid]
EvilKey == [sk |-> ZeroFid]
Sign(key, m) == [key |-> key, over |-> m]
Verify(fid, sig, m) == sig = Sign(KeyOf(fid), m)

to_var_int(n) ==
    IF n <= VarIntOneByteMax THEN <<n>> ELSE <<253, n % 256, n \div 256>>
\* <<value, number of bytes read>> from the front of a zero-padded array
from_var_int(b) ==
    IF ByteAt(b, 0) <= VarIntOneByteMax
    THEN <<ByteAt(b, 0), 1>>
    ELSE <<ByteAt(b, 1) + 256 * ByteAt(b, 2), 3>>

(* ----------------------------- payloads --------------------------------- *)
\* 48 payload bytes given as a byte string; shorter content is zero-padded
RawPayload(b) == [raw |-> Trim(b)]
\* bytes 0..27 followed by a 20-byte pointer
ChainPayload(hd, ptr) ==
    IF ptr = NullPtr THEN RawPayload(hd) ELSE [hd |-> Trim(hd), ptr |-> ptr]
\* bytes 0..31 a fid, bytes 32..35 a u32, bytes 36..47 a 12-byte value
FidPayload(fid, n, h) == [fid |-> fid, n |-> n, h |-> h]
Zero12 == [raw12 |-> <<>>]
UpdPayload(name, v) == [name |-> name, v |-> v]

HeadBytes(p) == IF "raw" \in DOMAIN p THEN p.raw ELSE p.hd
\* payload[0:20] and payload[-20:] of a payload made of bytes and a pointer
First20(p) == Bytes20(PadSlice(HeadBytes(p), 0, PtrLen))
Last20(p) ==
    IF "ptr" \in DOMAIN p THEN p.ptr
    ELSE Bytes20(PadSlice(p.raw, ChainHeadLen, PayloadLen))

(* --------------------------- packet codec ------------------------------- *)
BlockName(prefix, fid, seq, prev_mid) ==
    [prefix |-> prefix, fid |-> fid, seq |-> seq, prev_mid |-> prev_mid]
Sha7(name) == [dmx |-> name]
Expanded(name, dmx, type, payload) ==
    [name |-> name, dmx |-> dmx, type |-> type, payload |-> payload]
\* sha256(expanded || signature)[0..20]; a signature made over the very
\* bytes it follows already determines them
Sha20Full(expanded, sig) ==
    IF sig.over = expanded THEN [mid |-> sig]
    ELSE [mid |-> sig, of |-> expanded]

WirePacket(reserved, dmx, type, payload, signature) ==
    [reserved |-> reserved, dmx |-> dmx, type |-> type, payload |-> payload,
     signature |-> signature]

new_packet(fid, seq, prev_mid, payload, pkt_type, key) ==
    LET name == BlockName(PKT_PREFIX, fid, seq, prev_mid)
        dmx  == Sha7(name)
        full == Expanded(name, dmx, pkt_type, payload)
        sig  == Sign(key, full)
    IN  [wire |-> WirePacket(PKT_PREFIX, dmx, pkt_type, payload, sig),
         fid |-> fid, seq |-> seq, prev_mid |-> prev_mid,
         mid |-> Sha20Full(full, sig)]

pkt_from_wire(fid, seq, prev_mid, pkt_wire) ==
    LET name == BlockName(pkt_wire.reserved, fid, seq, prev_mid)
        full == Expanded(name, pkt_wire.dmx, pkt_wire.type, pkt_wire.payload)
    IN  IF ~PYCOM /\ ~Verify(fid, pkt_wire.signature, full)
        THEN None
        ELSE [wire |-> pkt_wire, fid |-> fid, seq |-> seq,
              prev_mid |-> prev_mid,
              mid |-> Sha20Full(full, pkt_wire.signature)]

create_parent_pkt(fid, seq, prev_mid, child_fid, skey) ==
    new_packet(fid, seq, prev_mid, FidPayload(child_fid, 0, Zero12), MKCHILD, skey)

create_child_pkt(fid, payload, skey) ==
    new_packet(fid, 1, Fid20(fid), payload, ISCHILD, skey)

create_end_pkt(fid, seq, prev_mid, contn_fid, skey) ==
    new_packet(fid, seq, prev_mid, FidPayload(contn_fid, 0, Zero12), CONTDAS, skey)

create_upd_pkt(fid, seq, prev_mid, file_name, v_number, key) ==
    new_packet(fid, seq, prev_mid, UpdPayload(file_name, v_number), UPDFILE, key)

create_apply_pkt(fid, seq, prev_mid, file_fid, update_seq, key) ==
    new_packet(fid, seq, prev_mid, FidPayload(file_fid, update_seq, Zero12),
               APPLYUP, key)

(* ------------------------------ blobs ----------------------------------- *)
Blob(payload, pointer) == [payload |-> Trim(payload), pointer |-> pointer]
\* sha256(blob[8:])[:20]
BlobId(blob) == [blob |-> blob]
\* a file of the _blobs directory: its name (a 20-byte value) and content
BlobFile(name, blob) == [name |-> name, blob |-> blob]
HasBlobFile(store, name) == \E f \in store : f.name = name
ReadBlobFile(store, name) == (CHOOSE f \in store : f.name = name).blob
WriteBlobFile(store, name, blob) ==
    {f \in store : f.name # name} \cup {BlobFile(name, blob)}

\* the while loop of create_chain: blobs from the last one to the first
RECURSIVE ChainLoop(_, _, _, _, _)
ChainLoop(blob_content, front, back, ptr, chain) ==
    IF front < 0 THEN <<ptr, chain>>
    ELSE LET part == PySlice(blob_content, front, back)
             blob == Blob(part, ptr)
         IN  ChainLoop(blob_content, front - BlobPayloadLen,
                       back - BlobPayloadLen, BlobId(blob), <<blob>> \o chain)

\* <<packet, blobs in chain order>>
create_chain(fid, seq, prev_mid, content, key) ==
    LET content_len == Len(content)
        var_int == to_var_int(content_len)
        vil == Len(var_int)
    IN  IF content_len <= InlineMax
        THEN <<new_packet(fid, seq, prev_mid,
                          RawPayload(to_var_int(content_len) \o content),
                          CHAIN20, key), <<>>>>
        ELSE LET expected_num_blobs ==
                     CeilDiv(content_len - ChainHeadLen, BlobPayloadLen)
                 hd == var_int \o PySlice(content, 0, ChainHeadLen - vil)
                 rest == PySlice(content, ChainHeadLen - vil, content_len)
                 room == expected_num_blobs * BlobPayloadLen
                 blob_content ==
                     IF Len(rest) >= room THEN rest
                     ELSE rest \o Zeros(room - Len(rest))
                 back == Len(blob_content)
                 front == IF back - BlobPayloadLen > 0
                          THEN back - BlobPayloadLen ELSE 0
                 res == ChainLoop(blob_content, front, back, NullPtr, <<>>)
             IN  <<new_packet(fid, seq, prev_mid, ChainPayload(hd, res[1]),
                              CHAIN20, key), res[2]>>

(* --------------------------- feed basics -------------------------------- *)
NoFeed == None
Exists(n, f) == head[n][f] # NoFeed

Header(fid, parent_fid, parent_seq, anchor_seq, anchor_mid, front_seq, front_mid) ==
    [fid |-> fid, parent_fid |-> parent_fid, parent_seq |-> parent_seq,
     anchor_seq |-> anchor_seq, anchor_mid |-> anchor_mid,
     front_seq |-> front_seq, front_mid |-> front_mid]

create_feed(fid, trusted_seq, trusted_mid, parent_seq, parent_fid) ==
    Header(fid, parent_fid, parent_seq, trusted_seq, trusted_mid,
           trusted_seq, Fid20(fid))

length(feed) == feed.front_seq - feed.anchor_seq

\* the log file is read at 128 * (relative_i - 1)
get_wire(feed, lg, i) ==
    LET j == IF i < 0 THEN feed.front_seq + i + 1 ELSE i
    IN  IF j > feed.front_seq \/ j <= feed.anchor_seq
        THEN Raised("IndexError")
        ELSE lg[j - feed.anchor_seq]

\* append_packet with the log opened for writing instead of appending: the
\* new packet replaces what the log held
append_packet_truncating(feed, lg, pkt) ==
    <<[feed EXCEPT !.front_mid = pkt.mid,
                   !.front_seq = feed.front_seq + 1],
      <<pkt.wire>>>>

\* <<header, log>> after append_packet (front_seq is a u32; the model keeps
\* it far from the wrap)
append_packet(feed, lg, pkt) ==
    <<[feed EXCEPT !.front_mid = pkt.mid,
                   !.front_seq = feed.front_seq + 1],
      Append(lg, pkt.wire)>>

\* a[i:j] = x on a bytearray; j < 0 stands for the open end a[i:]
PyAssign(a, i, j, x) ==
    PySlice(a, 0, i) \o x \o (IF j < 0 THEN <<>> ELSE PySlice(a, j, Len(a)))

\* blob_array[8 + from : 8 + to]; read only where the pointer is the null pointer
BlobBytes(blob, from, to) ==
    PySlice(PadSlice(blob.payload, 0, BlobPayloadLen) \o Zeros(PtrLen), from, to)

\* the while loop of get_payload
RECURSIVE PayloadLoop(_, _, _, _, _)
PayloadLoop(store, ptr, content_array, current_i, content_size) ==
    IF ptr = NullPtr THEN content_array
    ELSE IF ~HasBlobFile(store, ptr) THEN Raised("OSError")
    ELSE LET blob == ReadBlobFile(store, ptr)
         IN  IF blob.pointer = NullPtr
             THEN PayloadLoop(store, blob.pointer,
                      PyAssign(content_array, current_i, -1,
                               BlobBytes(blob, 0, content_size - current_i)),
                      current_i, content_size)
             ELSE PayloadLoop(store, blob.pointer,
                      PyAssign(content_array, current_i,
                               current_i + BlobPayloadLen,
                               BlobBytes(blob, 0, BlobPayloadLen)),
                      current_i + BlobPayloadLen, content_size)

get_payload(feed, lg, store, i) ==
    LET wire == get_wire(feed, lg, i)
    IN  IF IsRaised(wire) THEN wire
        ELSE IF wire.type # CHAIN20 THEN wire.payload
        ELSE LET hb == HeadBytes(wire.payload)
                 vi == from_var_int(hb)
                 content_size == vi[1]
                 num_bytes == vi[2]
                 current_i == ChainHeadLen - num_bytes
             IN  IF content_size <= InlineMax
                 THEN PadSlice(hb, 1, 1 + content_size)
                 ELSE PayloadLoop(store, Last20(wire.payload),
                          PyAssign(Zeros(content_size), 0, current_i,
                                   PadSlice(hb, num_bytes, ChainHeadLen)),
                          current_i, content_size)

\* the while loop of waiting_for_blob
RECURSIVE WaitLoop(_, _)
WaitLoop(store, ptr) ==
    IF ptr = NullPtr THEN None
    ELSE IF ~HasBlobFile(store, ptr) THEN ptr
    ELSE WaitLoop(store, ReadBlobFile(store, ptr).pointer)

waiting_for_blob(feed, lg, store) ==
    IF feed.front_seq < 1 THEN None
    ELSE LET wpkt == get_wire(feed, lg, -1)
         IN  IF IsRaised(wpkt) THEN wpkt
             ELSE IF wpkt.type # CHAIN20 THEN None
             ELSE WaitLoop(store, First20(wpkt.payload))

(* --------------------------- local appends ------------------------------ *)
append_bytes(feed, lg, payload, key) ==
    append_packet(feed, lg,
        new_packet(feed.fid, feed.front_seq + 1, feed.front_mid,
                   RawPayload(payload), PLAIN48, key))

\* the for loop of append_blob: each blob is written under the pointer that
\* names it in its predecessor
RECURSIVE WriteChain(_, _, _)
WriteChain(store, ptr, chain) ==
    IF chain = <<>> THEN store
    ELSE WriteChain(WriteBlobFile(store, ptr, Head(chain)),
                    Head(chain).pointer, Tail(chain))

\* <<header, log, blob store>> after append_blob
append_blob(feed, lg, store, payload, key) ==
    LET made == create_chain(feed.fid, feed.front_seq, feed.front_mid, payload, key)
        app  == append_packet(feed, lg, made[1])
    IN  <<app[1], app[2],
          WriteChain(store, Last20(made[1].wire.payload), made[2])>>

add_upd_file_name(feed, lg, file_name, key, v_number) ==
    append_packet(feed, lg,
        create_upd_pkt(feed.fid, feed.front_seq + 1, feed.front_mid,
                       file_name, v_number, key))

add_apply(feed, lg, file_fid, v_num, key) ==
    append_packet(feed, lg,
        create_apply_pkt(feed.fid, feed.front_seq + 1, feed.front_mid,
                         file_fid, v_num, key))

\* <<parent header, parent log, child header, child log>>
create_child_feed(parent_feed, parent_lg, child_lg, parent_key, child_fid, child_key) ==
    LET parent_pkt == create_parent_pkt(parent_feed.fid, parent_feed.front_seq + 1,
                                        parent_feed.front_mid, child_fid, parent_key)
        child_feed == create_feed(child_fid, 0, Fid20(child_fid),
                                  parent_feed.front_seq, parent_feed.fid)
        child_payload == FidPayload(parent_feed.fid, parent_feed.front_seq,
                                    [sha12 |-> parent_pkt.wire])
        child_pkt == create_child_pkt(child_fid, child_payload, child_key)
        c == append_packet(child_feed, child_lg, child_pkt)
        p == append_packet(parent_feed, parent_lg, parent_pkt)
    IN  <<p[1], p[2], c[1], c[2]>>

(* --------------------------- remote appends ----------------------------- *)
\* <<accepted, header, log>> after verify_and_append_bytes
verify_and_append_bytes(feed, lg, wpkt) ==
    LET pkt == pkt_from_wire(feed.fid, feed.front_seq, feed.front_mid, wpkt)
    IN  IF IsNone(pkt) THEN <<FALSE, feed, lg>>
        ELSE LET app == append_packet(feed, lg, pkt)
             IN  <<TRUE, app[1], app[2]>>

\* <<outcome, blob store>> after verify_and_append_blob; hexlify(...) has no
\* digest(), so the branch that saves the blob raises before the file is opened
verify_and_append_blob(feed, lg, store, blob) ==
    LET w == waiting_for_blob(feed, lg, store)
    IN  IF IsRaised(w) THEN <<w, store>>
        ELSE IF BlobId(blob) # w THEN <<None, store>>
        ELSE <<Raised("AttributeError"), store>>

(* ------------------------------ queries --------------------------------- *)
\* sha256(fid + b"want")[:7]
WantDmx(fid) == [want |-> fid]
\* the 43-byte and the 63-byte want message
WantPacket(fid, seq) == [len |-> 43, dmx |-> WantDmx(fid), fid |-> fid, seq |-> seq]
WantBlob(fid, seq, ptr) ==
    [len |-> 63, dmx |-> WantDmx(fid), fid |-> fid, seq |-> seq, ptr |-> ptr]

get_want(feed, lg, store) ==
    LET blob_ptr == waiting_for_blob(feed, lg, store)
    IN  IF IsRaised(blob_ptr) THEN blob_ptr
        ELSE IF IsNone(blob_ptr) THEN WantPacket(feed.fid, feed.front_seq + 1)
        ELSE WantBlob(feed.fid, feed.front_seq, blob_ptr)

\* wire[16:48] of a packet whose payload starts with a fid
Fid32(p) == IF "fid" \in DOMAIN p THEN p.fid ELSE [raw32 |-> p]

\* the outcomes of get_parent: feed.front_mid < 1 compares a bytearray with
\* an int, which raises TypeError on one MicroPython and is False on another
get_parent(feed, lg) ==
    IF feed.anchor_seq # 0 THEN {None}
    ELSE {Raised("TypeError"),
          LET wire == get_wire(feed, lg, 1)
          IN  IF IsRaised(wire) THEN wire
              ELSE IF wire.type # ISCHILD THEN None
              ELSE Fid32(wire.payload)}

\* the while loop of get_children, from seq i on
RECURSIVE ChildrenFrom(_, _, _)
ChildrenFrom(feed, lg, i) ==
    IF i > feed.front_seq THEN <<>>
    ELSE LET wpkt == get_wire(feed, lg, i)
         IN  (IF wpkt.type = MKCHILD THEN <<Fid32(wpkt.payload)>> ELSE <<>>)
             \o ChildrenFrom(feed, lg, i + 1)
get_children(feed, lg) == ChildrenFrom(feed, lg, feed.anchor_seq + 1)

(* ------------------------ version manager: diffs ----------------------- *)
\* a value returned where the code may raise instead
Ok(v) == [ok |-> v]

\* a text is the list of its lines (content.split("\n")), a line a byte
\* string without "\n"; "\n".join of no lines is the text of one empty line
Join(lines) == IF lines = <<>> THEN << <<>> >> ELSE lines
OpI == 73
OpD == 68
Change(line_num, op, ln) == [line_num |-> line_num, op |-> op, ln |-> ln]
InSeq(x, sq) == \E i \in 1..Len(sq) : sq[i] = x
Reverse(sq) == [i \in 1..Len(sq) |-> sq[Len(sq) + 1 - i]]
\* n as 4 big-endian bytes, and back
U32BE(n) == <<n \div 16777216, (n \div 65536) % 256, (n \div 256) % 256, n % 256>>
FromU32BE(b) ==
    ByteAt(b, 0) * 16777216 + ByteAt(b, 1) * 65536 + ByteAt(b, 2) * 256 + ByteAt(b, 3)

\* the while loop of get_changes and the two loops after it
RECURSIVE ChangesLoop(_, _, _, _)
ChangesLoop(old_lines, new_lines, line_num, changes) ==
    IF old_lines = <<>> \/ new_lines = <<>>
    THEN changes
         \o [i \in 1..Len(old_lines) |-> Change(line_num, OpD, old_lines[i])]
         \o [i \in 1..Len(new_lines) |-> Change(line_num + i - 1, OpI, new_lines[i])]
    ELSE LET old_l == Head(old_lines)
             new_l == Head(new_lines)
         IN  IF old_l = new_l
             THEN ChangesLoop(Tail(old_lines), Tail(new_lines), line_num + 1, changes)
             ELSE IF ~InSeq(old_l, Tail(new_lines))
             THEN ChangesLoop(Tail(old_lines), new_lines, line_num,
                              Append(changes, Change(line_num, OpD, old_l)))
             ELSE ChangesLoop(old_lines, Tail(new_lines), line_num + 1,
                              Append(changes, Change(line_num, OpI, new_l)))
\* get_changes, were the lines counted from 0
get_changes_from0(old_version, new_version) ==
    ChangesLoop(old_version, new_version, 0, <<>>)
get_changes(old_version, new_version) ==
    ChangesLoop(old_version, new_version, 1, <<>>)

\* list.insert(i, x) and del list[i] of Python, i possibly negative
PyInsert(lst, i, x) ==
    LET j == IF i < 0 THEN (IF Len(lst) + i < 0 THEN 0 ELSE Len(lst) + i)
             ELSE IF i > Len(lst) THEN Len(lst) ELSE i
    IN  SubSeq(lst, 1, j) \o <<x>> \o SubSeq(lst, j + 1, Len(lst))
PyIndex(lst, i) == IF i < 0 THEN Len(lst) + i ELSE i
PyDelRaises(lst, i) == PyIndex(lst, i) < 0 \/ PyIndex(lst, i) >= Len(lst)
PyDel(lst, i) ==
    SubSeq(lst, 1, PyIndex(lst, i)) \o SubSeq(lst, PyIndex(lst, i) + 2, Len(lst))

\* the for loop of apply_changes
RECURSIVE ApplyLoop(_, _)
ApplyLoop(old_lines, changes) ==
    IF changes = <<>> THEN Ok(old_lines)
    ELSE LET c == Head(changes)
         IN  IF c.op = OpI
             THEN ApplyLoop(PyInsert(old_lines, c.line_num - 1, c.ln), Tail(changes))
             ELSE IF c.op = OpD
             THEN IF PyDelRaises(old_lines, c.line_num - 1) THEN Raised("IndexError")
                  ELSE ApplyLoop(PyDel(old_lines, c.line_num - 1), Tail(changes))
             ELSE ApplyLoop(old_lines, Tail(changes))
\* Ok(text) or the exception raised
apply_changes(content, changes) ==
    LET r == ApplyLoop(content, changes)
    IN  IF IsRaised(r) THEN r ELSE Ok(Join(r.ok))

\* reverse_changes, were the order of the list kept
reverse_changes_kept(changes) ==
    [i \in 1..Len(changes) |->
        Change(changes[i].line_num,
               IF changes[i].op = OpD THEN OpI ELSE OpD, changes[i].ln)]
reverse_changes(changes) ==
    Reverse([i \in 1..Len(changes) |->
                Change(changes[i].line_num,
                       IF changes[i].op = OpD THEN OpI ELSE OpD, changes[i].ln)])

RECURSIVE ChangeBytes(_)
ChangeBytes(changes) ==
    IF changes = <<>> THEN <<>>
    ELSE LET c == Head(changes)
             b_change == to_var_int(c.line_num) \o <<c.op>> \o c.ln
         IN  to_var_int(Len(b_change)) \o b_change \o ChangeBytes(Tail(changes))
changes_to_bytes(changes, dependency) == U32BE(dependency) \o ChangeBytes(changes)

\* the while loop of bytes_to_changes; reading past the end raises IndexError
RECURSIVE ParseLoop(_, _, _)
ParseLoop(changes, curr_i, operations) ==
    IF curr_i >= Len(changes) THEN Ok(operations)
    ELSE LET sz == from_var_int(PySlice(changes, curr_i, Len(changes)))
             i2 == curr_i + sz[2]
             ln == from_var_int(PySlice(changes, i2, Len(changes)))
             i3 == i2 + ln[2]
             str_len == sz[1] - ln[2] - 1
             i4 == i3 + 1 + str_len
         IN  IF i2 >= Len(changes) \/ i3 >= Len(changes) THEN Raised("IndexError")
             ELSE ParseLoop(changes, i4,
                      Append(operations,
                             Change(ln[1], changes[i3 + 1],
                                    IF str_len <= 0 THEN <<>>
                                    ELSE PySlice(changes, i3 + 1, i3 + 1 + str_len))))
\* the operations and the dependency, or the exception raised
bytes_to_changes(changes) ==
    LET ops == ParseLoop(changes, 4, <<>>)
    IN  IF IsRaised(ops) THEN ops
        ELSE [ops |-> ops.ok, dep |-> FromU32BE(PySlice(changes, 0, 4))]

(* ------------------------- inputs of the model -------------------------- *)
Author == "author"
Replica == "replica"
\* the feeds the replica follows
ReplicaFids == {1}
\* the feeds made with create_feed; the others are made as child feeds
RootFids == {1}
PlainPayloads == {<<7>>}
BlobLens == {5, 30}
Content(L) == [i \in 1..L |-> i]
AltMid == Bytes20(<<9>>)
\* create_feed is called with the default anchor or with a trusted (seq, mid)
Anchors(f) == {<<0, Fid20(f)>>, <<1, AltMid>>}

LogWires(n, f) == {log[n][f][i] : i \in 1..Len(log[n][f])}
\* what the network may hand to the replica for feed f: the author's packets
\* in any order, copies altered in transit, and packets signed with a key
\* that is not the feed's
Tampered(w) ==
    {[w EXCEPT !.type = IF w.type = PLAIN48 THEN CHAIN20 ELSE PLAIN48],
     [w EXCEPT !.payload = RawPayload(<<9>>)]}
Forged(feed) ==
    {new_packet(feed.fid, s, feed.front_mid, RawPayload(<<9>>), PLAIN48,
                EvilKey).wire : s \in {feed.front_seq, feed.front_seq + 1}}
WirePool(f) ==
    LogWires(Author, f)
    \cup (IF log[Author][f] = <<>> THEN {}
          ELSE Tampered(log[Author][f][Len(log[Author][f])]))
    \cup (IF Exists(Replica, f) THEN Forged(head[Replica][f]) ELSE {})

(* ------------------------------ actions --------------------------------- *)
Init ==
    /\ head = [n \in NODES |-> [f \in FIDS |-> NoFeed]]
    /\ log = [n \in NODES |-> [f \in FIDS |-> <<>>]]
    /\ blobs = [n \in NODES |-> {}]
    /\ arg = None
    /\ vm = None

CanAppend(n, f) == Exists(n, f) /\ length(head[n][f]) < MaxLen

CreateFeed(n, f, a) ==
    /\ ~Exists(n, f)
    /\ f \in (IF n = Replica THEN ReplicaFids ELSE RootFids)
    /\ head' = [head EXCEPT ![n][f] = create_feed(f, a[1], a[2], 0, ZeroFid)]
    /\ UNCHANGED <<log, blobs, arg, vm>>

Stored(n, f, res) ==
    /\ head' = [head EXCEPT ![n][f] = res[1]]
    /\ log' = [log EXCEPT ![n][f] = res[2]]

AppendBytes(f, payload) ==
    /\ CanAppend(Author, f)
    /\ Stored(Author, f,
              append_bytes(head[Author][f], log[Author][f], payload, KeyOf(f)))
    /\ UNCHANGED <<blobs, arg, vm>>

AppendBlob(f, L) ==
    /\ CanAppend(Author, f)
    /\ LET res == append_blob(head[Author][f], log[Author][f], blobs[Author],
                              Content(L), KeyOf(f))
       IN  /\ Stored(Author, f, res)
           /\ blobs' = [blobs EXCEPT ![Author] = res[3]]
    /\ UNCHANGED <<arg, vm>>

AddUpd(f) ==
    /\ CanAppend(Author, f)
    /\ Stored(Author, f,
              add_upd_file_name(head[Author][f], log[Author][f], "f.txt",
                                KeyOf(f), 0))
    /\ UNCHANGED <<blobs, arg, vm>>

AddApply(f, g) ==
    /\ f # g
    /\ CanAppend(Author, f)
    /\ Stored(Author, f,
              add_apply(head[Author][f], log[Author][f], g, 1, KeyOf(f)))
    /\ UNCHANGED <<blobs, arg, vm>>

AppendEnd(f, g) ==
    /\ f # g
    /\ CanAppend(Author, f)
    /\ Stored(Author, f,
              append_packet(head[Author][f], log[Author][f],
                  create_end_pkt(f, head[Author][f].front_seq + 1,
                                 head[Author][f].front_mid, g, KeyOf(f))))
    /\ UNCHANGED <<blobs, arg, vm>>

CreateChildFeed(p, c) ==
    /\ p # c
    /\ CanAppend(Author, p)
    /\ ~Exists(Author, c)
    /\ LET res == create_child_feed(head[Author][p], log[Author][p],
                                    log[Author][c], KeyOf(p), c, KeyOf(c))
       IN  /\ head' = [head EXCEPT ![Author][p] = res[1], ![Author][c] = res[3]]
           /\ log' = [log EXCEPT ![Author][p] = res[2], ![Author][c] = res[4]]
    /\ UNCHANGED <<blobs, arg, vm>>

Deliver(f, w) ==
    /\ Exists(Replica, f)
    /\ length(head[Replica][f]) < MaxLen
    /\ LET res == verify_and_append_bytes(head[Replica][f], log[Replica][f], w)
       IN  /\ head' = [head EXCEPT ![Replica][f] = res[2]]
           /\ log' = [log EXCEPT ![Replica][f] = res[3]]
    /\ UNCHANGED <<blobs, arg, vm>>

DeliverAny(f) == \E w \in WirePool(f) : Deliver(f, w)

Next ==
    \/ \E n \in NODES, f \in FIDS : \E a \in Anchors(f) : CreateFeed(n, f, a)
    \/ \E f \in FIDS, b \in PlainPayloads : AppendBytes(f, b)
    \/ \E f \in FIDS, L \in BlobLens : AppendBlob(f, L)
    \/ \E f \in FIDS : AddUpd(f)
    \/ \E f \in FIDS, g \in FIDS : AddApply(f, g)
    \/ \E f \in FIDS, g \in FIDS : AppendEnd(f, g)
    \/ \E p \in FIDS, c \in FIDS : CreateChildFeed(p, c)
    \/ \E f \in ReplicaFids : DeliverAny(f)

Spec == Init /\ [][Next]_vars

(* ------------------- failure inside append_packet ----------------------- *)
\* the process stops after the packet is written to the log and before
\* save_header rewrites the header
append_packet_torn(feed, lg, pkt) == <<feed, Append(lg, pkt.wire)>>

CrashInAppendBytes(f, payload) ==
    /\ CanAppend(Author, f)
    /\ Len(log[Author][f]) - length(head[Author][f]) < MaxTorn
    /\ Stored(Author, f,
              append_packet_torn(head[Author][f], log[Author][f],
                  new_packet(f, head[Author][f].front_seq + 1,
                             head[Author][f].front_mid, RawPayload(payload),
                             PLAIN48, KeyOf(f))))
    /\ UNCHANGED <<blobs, arg, vm>>

NextCrash ==
    \/ Next
    \/ \E f \in FIDS, b \in PlainPayloads : CrashInAppendBytes(f, b)

CrashSpec == Init /\ [][NextCrash]_vars

(* ---------------------- blob chain round trip --------------------------- *)
InitChain ==
    /\ head = [n \in NODES |-> [f \in FIDS |->
                 IF n = Author /\ f = 1
                 THEN create_feed(1, 0, Fid20(1), 0, ZeroFid) ELSE NoFeed]]
    /\ log = [n \in NODES |-> [f \in FIDS |-> <<>>]]
    /\ blobs = [n \in NODES |-> {}]
    /\ arg = None
    /\ vm = None

ChainAppend(L) ==
    /\ arg = None
    /\ LET res == append_blob(head[Author][1], log[Author][1], blobs[Author],
                              Content(L), KeyOf(1))
       IN  /\ Stored(Author, 1, res)
           /\ blobs' = [blobs EXCEPT ![Author] = res[3]]
    /\ arg' = [content |-> Content(L)]
    /\ UNCHANGED vm

NextChain == \E L \in 0..MaxContent : ChainAppend(L)

ChainSpec == InitChain /\ [][NextChain]_vars

(* ------------------ a chain sent to the replica ------------------------- *)
\* content lengths whose chains have 0..MaxSyncBlobs blobs
SyncLens ==
    {InlineMax + BlobPayloadLen * k - d : k \in 0..MaxSyncBlobs, d \in 0..3}
\* arg: the author's content, and what has been handed to the replica
InitSync ==
    /\ head = [n \in NODES |-> [f \in FIDS |->
                 IF f = 1 THEN create_feed(1, 0, Fid20(1), 0, ZeroFid)
                 ELSE NoFeed]]
    /\ log = [n \in NODES |-> [f \in FIDS |-> <<>>]]
    /\ blobs = [n \in NODES |-> {}]
    /\ arg = [content |-> <<>>, pkt |-> FALSE, blobs |-> {}]
    /\ vm = None

AuthorChain(L) ==
    /\ log[Author][1] = <<>>
    /\ LET res == append_blob(head[Author][1], log[Author][1], blobs[Author],
                              Content(L), KeyOf(1))
       IN  /\ Stored(Author, 1, res)
           /\ blobs' = [blobs EXCEPT ![Author] = res[3]]
    /\ arg' = [arg EXCEPT !.content = Content(L)]
    /\ UNCHANGED vm

SendPacket ==
    /\ log[Author][1] # <<>>
    /\ ~arg.pkt
    /\ LET v == verify_and_append_bytes(head[Replica][1], log[Replica][1],
                                        log[Author][1][1])
       IN  Stored(Replica, 1, <<v[2], v[3]>>)
    /\ arg' = [arg EXCEPT !.pkt = TRUE]
    /\ UNCHANGED <<blobs, vm>>

SendBlob(b) ==
    /\ b \notin arg.blobs
    /\ blobs' = [blobs EXCEPT ![Replica] =
                    verify_and_append_blob(head[Replica][1], log[Replica][1],
                                           blobs[Replica], b)[2]]
    /\ arg' = [arg EXCEPT !.blobs = arg.blobs \cup {b}]
    /\ UNCHANGED <<head, log, vm>>

SendAnyBlob == \E bf \in blobs[Author] : SendBlob(bf.blob)

NextSync ==
    \/ \E L \in SyncLens : AuthorChain(L)
    \/ SendPacket
    \/ SendAnyBlob

SyncSpec == InitSync /\ [][NextSync]_vars

(* ===================== properties of the feed engine ==================== *)
Feeds == {nf \in NODES \X FIDS : Exists(nf[1], nf[2])}
Hd(nf) == head[nf[1]][nf[2]]
Lg(nf) == log[nf[1]][nf[2]]
Seqs(feed) == (feed.anchor_seq + 1)..feed.front_seq

\* the values a packet's signature was made over
SignedSeq(w) == w.signature.over.name.seq
SignedPrev(w) == w.signature.over.name.prev_mid
\* sha256(prefix || fid || seq || prev_mid || dmx || type || payload || sig)[0..20]
MidOf(fid, seq, prev_mid, w) ==
    Sha20Full(Expanded(BlockName(PKT_PREFIX, fid, seq, prev_mid),
                       w.dmx, w.type, w.payload), w.signature)
\* the mid of the packet stored at seq k, and the mid that precedes it
RECURSIVE MidAt(_, _, _)
PrevMidAt(feed, lg, k) ==
    IF k = feed.anchor_seq + 1 THEN Fid20(feed.fid) ELSE MidAt(feed, lg, k - 1)
MidAt(feed, lg, k) ==
    MidOf(feed.fid, k, PrevMidAt(feed, lg, k), get_wire(feed, lg, k))

\* the headers and logs the author's feed f can have after its next append
AuthorNext(f) ==
    LET feed == head[Author][f]
        lg == log[Author][f]
    IN  {append_bytes(feed, lg, b, KeyOf(f)) : b \in PlainPayloads}
        \cup {LET r == append_blob(feed, lg, blobs[Author], Content(L), KeyOf(f))
              IN  <<r[1], r[2]>> : L \in BlobLens}
        \cup {add_upd_file_name(feed, lg, "f.txt", KeyOf(f), 0)}
        \cup {add_apply(feed, lg, g, 1, KeyOf(f)) : g \in FIDS \ {f}}
SameFront(f) ==
    /\ Exists(Author, f) /\ Exists(Replica, f)
    /\ head[Author][f].front_seq = head[Replica][f].front_seq
    /\ head[Author][f].front_mid = head[Replica][f].front_mid

\* C1: a replica whose front (front_seq, front_mid) equals the author's
\* accepts, through verify_and_append_bytes, the packet of the author's next
\* append, and afterwards both fronts are equal again.
C1_ReplicaAcceptsNext ==
    \A f \in ReplicaFids : SameFront(f) =>
        \A a \in AuthorNext(f) :
            LET v == verify_and_append_bytes(head[Replica][f], log[Replica][f],
                                             a[2][Len(a[2])])
            IN  /\ v[1]
                /\ v[2].front_seq = a[1].front_seq
                /\ v[2].front_mid = a[1].front_mid

\* C2: a wire packet that does not verify under (fid, front_seq + 1,
\* front_mid) is rejected by verify_and_append_bytes, which then leaves the
\* header and the log as they were.
C2_RejectsUnverified ==
    \A f \in ReplicaFids : Exists(Replica, f) =>
        \A w \in WirePool(f) :
            LET feed == head[Replica][f]
                v == verify_and_append_bytes(feed, log[Replica][f], w)
            IN  IsNone(pkt_from_wire(f, feed.front_seq + 1, feed.front_mid, w))
                => (~v[1] /\ v[2] = feed /\ v[3] = log[Replica][f])

\* C3: every stored packet is signed over the mid of the packet stored
\* before it, and the first stored packet over fid[0..20], also where the
\* feed was created with a non-zero anchor.
C3_IntegrityChain ==
    \A nf \in Feeds : \A k \in Seqs(Hd(nf)) :
        SignedPrev(get_wire(Hd(nf), Lg(nf), k)) = PrevMidAt(Hd(nf), Lg(nf), k)

\* C4: the packet stored at seq k was signed with sequence number k,
\* verifies under (fid, k, prev_mid(k)), and carries the dmx
\* sha256(prefix || fid || k || prev_mid(k))[0..7].
C4_StoredUnderOwnSeq ==
    \A nf \in Feeds : \A k \in Seqs(Hd(nf)) :
        LET w == get_wire(Hd(nf), Lg(nf), k)
            prev == PrevMidAt(Hd(nf), Lg(nf), k)
        IN  /\ SignedSeq(w) = k
            /\ ~IsNone(pkt_from_wire(nf[2], k, prev, w))
            /\ w.dmx = Sha7(BlockName(PKT_PREFIX, nf[2], k, prev))

\* C5: a feed that holds a contdas packet has ended: the contdas packet is
\* the last packet of its log, nothing is appended after it.
C5_EndedIsSticky ==
    \A nf \in Feeds : \A k \in Seqs(Hd(nf)) :
        get_wire(Hd(nf), Lg(nf), k).type = CONTDAS => k = Hd(nf).front_seq

\* C7: anchor_seq <= front_seq, the log holds front_seq - anchor_seq
\* packets, and front_mid is the mid of the packet at front_seq, or
\* fid[0..20] while the log is empty.
C7_HeaderInvariants ==
    \A nf \in Feeds :
        /\ Hd(nf).anchor_seq <= Hd(nf).front_seq
        /\ Len(Lg(nf)) = Hd(nf).front_seq - Hd(nf).anchor_seq
        /\ Hd(nf).front_mid =
               IF Hd(nf).front_seq = Hd(nf).anchor_seq THEN Fid20(nf[2])
               ELSE MidAt(Hd(nf), Lg(nf), Hd(nf).front_seq)

\* C8: the log is append-only: a stored packet is read back unchanged by
\* get_wire for ever, front_seq never decreases and grows by exactly one with
\* every append, get_wire(feed, -1) is the packet appended last, and fid,
\* parent_fid, parent_seq, anchor_seq and anchor_mid never change.
C8_FeedStep(n, f) ==
    LET feed == head[n][f]
        lg == log[n][f]
    IN  /\ Exists(n, f)'
        /\ head'[n][f].fid = feed.fid
        /\ head'[n][f].parent_fid = feed.parent_fid
        /\ head'[n][f].parent_seq = feed.parent_seq
        /\ head'[n][f].anchor_seq = feed.anchor_seq
        /\ head'[n][f].anchor_mid = feed.anchor_mid
        /\ head'[n][f].front_seq \in {feed.front_seq, feed.front_seq + 1}
        /\ \A k \in Seqs(feed) :
               get_wire(head'[n][f], log'[n][f], k) = get_wire(feed, lg, k)
        /\ head'[n][f].front_seq = feed.front_seq => log'[n][f] = lg
        /\ head'[n][f].front_seq = feed.front_seq + 1 =>
               /\ Len(log'[n][f]) = Len(lg) + 1
               /\ get_wire(head'[n][f], log'[n][f], -1)
                      = log'[n][f][Len(log'[n][f])]
C8_AppendOnly ==
    [][\A n \in NODES, f \in FIDS : Exists(n, f) => C8_FeedStep(n, f)]_vars
\* both nodes hold packets, and the author holds two in one feed
C8_Witness ==
    /\ \E f \in FIDS : Len(log[Author][f]) = 2
    /\ \E f \in FIDS : Exists(Replica, f) /\ Len(log[Replica][f]) >= 1

\* what waiting_for_blob is to return: the first pointer of the front
\* packet's chain, followed from the payload's last 20 bytes, that no blob file
\* is stored under
WaitingFor(feed, lg, store) ==
    IF length(feed) = 0 THEN None
    ELSE IF get_wire(feed, lg, -1).type # CHAIN20 THEN None
    ELSE WaitLoop(store, Last20(get_wire(feed, lg, -1).payload))

\* C10: waiting_for_blob returns None exactly when the feed is empty, its
\* front packet is not chain20, or the whole chain of the front packet is
\* stored, otherwise the first missing pointer; where it returns None for a
\* front packet, get_payload(feed, -1) succeeds.
C10_WaitingForBlob ==
    \A nf \in Feeds :
        LET r == waiting_for_blob(Hd(nf), Lg(nf), blobs[nf[1]])
        IN  /\ r = WaitingFor(Hd(nf), Lg(nf), blobs[nf[1]])
            /\ (IsNone(r) /\ length(Hd(nf)) > 0) =>
                   ~IsRaised(get_payload(Hd(nf), Lg(nf), blobs[nf[1]], -1))

\* C6: an append is atomic also where the process fails inside it: in every
\* state the files can be left in, the log holds front_seq - anchor_seq
\* records, and the record a later append writes is the one get_wire reads
\* at the new front_seq.
C6_AtomicAppend ==
    \A nf \in Feeds :
        /\ Len(Lg(nf)) = Hd(nf).front_seq - Hd(nf).anchor_seq
        /\ Len(Lg(nf)) > 0 =>
               get_wire(Hd(nf), Lg(nf), -1) = Lg(nf)[Len(Lg(nf))]

\* C9: content of any length L appended with append_blob is read back
\* unchanged by get_payload on the same feed (L <= 27, L = 28, and L - 27 a
\* multiple of 100, one above and one below a multiple included).
C9_ChainRoundTrip ==
    ~IsNone(arg) =>
        get_payload(head[Author][1], log[Author][1], blobs[Author], -1)
            = arg.content

\* C11: verify_and_append_blob stores the blob, under its own blob id, if
\* and only if that id is what the feed is waiting for (the first missing
\* pointer of the front packet's chain); otherwise nothing is written; after
\* an accepted blob the feed waits for the next pointer of the chain.
C11_BlobAccepted ==
    \A bf \in blobs[Author] :
        LET feed == head[Replica][1]
            lg == log[Replica][1]
            store == blobs[Replica]
            r == verify_and_append_blob(feed, lg, store, bf.blob)
        IN  IF BlobId(bf.blob) = WaitingFor(feed, lg, store)
            THEN /\ r[2] = WriteBlobFile(store, BlobId(bf.blob), bf.blob)
                 /\ WaitingFor(feed, lg, r[2]) \in {None, bf.blob.pointer}
            ELSE r[2] = store

\* C12: once the chain20 packet and every blob of its chain have been
\* handed to the replica, each once and in whatever order, the chain is
\* complete there: waiting_for_blob is None and get_payload(feed, -1) is the
\* author's content.
C12_AnyOrderCompletes ==
    (arg.pkt /\ arg.blobs = {bf.blob : bf \in blobs[Author]}) =>
        /\ IsNone(waiting_for_blob(head[Replica][1], log[Replica][1],
                                   blobs[Replica]))
        /\ get_payload(head[Replica][1], log[Replica][1], blobs[Replica], -1)
               = arg.content

\* C13: get_want is the 43-byte packet request for front_seq + 1 when the
\* feed waits for no blob, and the 63-byte blob request for front_seq and
\* the missing pointer when the front chain is incomplete; the blob form is
\* produced exactly when the front chain is incomplete.
C13_WantSwitch ==
    \A nf \in Feeds :
        LET p == WaitingFor(Hd(nf), Lg(nf), blobs[nf[1]])
        IN  get_want(Hd(nf), Lg(nf), blobs[nf[1]]) =
                IF IsNone(p) THEN WantPacket(nf[2], Hd(nf).front_seq + 1)
                ELSE WantBlob(nf[2], Hd(nf).front_seq, p)

\* C14: a feed made by create_child_feed starts with an ischild packet that
\* names its parent, the parent holds an mkchild packet naming the child at
\* some seq >= 2, get_parent(child) is the parent's fid and
\* get_children(parent) contains the child's fid.
C14_ParentChild ==
    \A c \in FIDS :
        (Exists(Author, c) /\ head[Author][c].parent_fid # ZeroFid) =>
            LET child == head[Author][c]
                p == child.parent_fid
                first == get_wire(child, log[Author][c], 1)
            IN  /\ first.type = ISCHILD
                /\ Fid32(first.payload) = p
                /\ \E k \in Seqs(head[Author][p]) :
                       /\ k >= 2
                       /\ get_wire(head[Author][p], log[Author][p], k).type = MKCHILD
                       /\ Fid32(get_wire(head[Author][p], log[Author][p], k).payload) = c
                /\ get_parent(child, log[Author][c]) = {p}
                /\ \E i \in 1..Len(get_children(head[Author][p], log[Author][p])) :
                       get_children(head[Author][p], log[Author][p])[i] = c

(* ========================== version manager ============================= *)
\* What the manager works on at one node: the feed files (head, log, blobs),
\* the registry's keys and callbacks, the work files, the saved
\* update_cfg.json, the VersionManager object, and the exception the last
\* call ended with ("" where it returned)
NoFid == 0
Present(st, fid) == fid # NoFid /\ st.head[fid] # NoFeed
Raise(st, e) == [st EXCEPT !.exc = e]
Put(st, fid, res) ==
    [st EXCEPT !.head[fid] = res[1], !.log[fid] = res[2]]

\* feed.get_upd: the file name and base version of the updfile packet at seq 2
get_upd(feed, lg) ==
    LET wpkt == get_wire(feed, lg, 2)
    IN  IF IsRaised(wpkt) THEN wpkt
        ELSE IF wpkt.type # UPDFILE THEN None
        ELSE wpkt.payload
\* feed.get_parent: the fid in the ischild packet at seq 1, NoFid for None
parent(feed, lg) ==
    IF length(feed) < 1 \/ feed.anchor_seq # 0 THEN NoFid
    ELSE IF lg[1].type # ISCHILD THEN NoFid
    ELSE Fid32(lg[1].payload)
\* feed.get_payload of an update blob: Ok(bytes), or the failure
ChainContent(st, fid, i) ==
    LET feed == st.head[fid]
        wire == get_wire(feed, st.log[fid], i)
    IN  IF IsRaised(wire) THEN wire
        ELSE IF wire.type # CHAIN20 THEN Raised("ValueError")
        ELSE IF ~IsNone(WaitLoop(st.blobs, Last20(wire.payload)))
        THEN Raised("IncompleteBlob")
        ELSE Ok(get_payload(feed, st.log[fid], st.blobs, i))
\* FeedManager.append_blob_to_feed: the chain is made by create_chain for the
\* packet that follows the front
append_blob_to_feed(feed, lg, store, content, key) ==
    LET made == create_chain(feed.fid, feed.front_seq + 1, feed.front_mid,
                             content, key)
        app  == append_packet(feed, lg, made[1])
    IN  <<app[1], app[2],
          WriteChain(store, Last20(made[1].wire.payload), made[2])>>

\* the seq at which the blob of version v is read in a feed of base minv,
\* were it the packet after
BlobSeqAfter(minv, v) == v - minv + 4
\* the seq at which the blob of version v is read in a feed of base minv
BlobSeq(minv, v) == v - minv + 3
\* the while loop of extract_version_graph: Ok(access_dict) or the failure
\* the while loop of extract_version_graph, were a version that a feed nearer
\* the newest already has kept for that feed
RECURSIVE AccessLoopKept(_, _, _)
AccessLoopKept(st, fid, access_dict) ==
    LET feed == st.head[fid]
        fn_v_tuple == get_upd(feed, st.log[fid])
    IN  IF IsRaised(fn_v_tuple) THEN fn_v_tuple
        ELSE IF IsNone(fn_v_tuple) THEN Ok(access_dict)
        ELSE LET minv == fn_v_tuple.v
                 maxv == minv + length(feed) - 3
                 acc == [v \in DOMAIN access_dict \cup (minv..maxv) |->
                            IF v \in DOMAIN access_dict THEN access_dict[v]
                            ELSE [fid |-> fid, minv |-> minv]]
                 parent_fid == parent(feed, st.log[fid])
             IN  IF parent_fid = NoFid THEN Ok(acc)
                 ELSE IF ~Present(st, parent_fid) THEN Raised("AssertionError")
                 ELSE AccessLoopKept(st, parent_fid, acc)
RECURSIVE AccessLoop(_, _, _)
AccessLoop(st, fid, access_dict) ==
    LET feed == st.head[fid]
        fn_v_tuple == get_upd(feed, st.log[fid])
    IN  IF IsRaised(fn_v_tuple) THEN fn_v_tuple
        ELSE IF IsNone(fn_v_tuple) THEN Ok(access_dict)
        ELSE LET minv == fn_v_tuple.v
                 maxv == minv + length(feed) - 3
                 acc == [v \in DOMAIN access_dict \cup (minv..maxv) |->
                            IF v \in minv..maxv THEN [fid |-> fid, minv |-> minv]
                            ELSE access_dict[v]]
                 parent_fid == parent(feed, st.log[fid])
             IN  IF parent_fid = NoFid THEN Ok(acc)
                 ELSE IF ~Present(st, parent_fid) THEN Raised("AssertionError")
                 ELSE AccessLoop(st, parent_fid, acc)
SetMax(S) == CHOOSE x \in S : \A y \in S : y <= x
AddEdge(graph, a, b) ==
    IF a \in DOMAIN graph THEN [graph EXCEPT ![a] = Append(@, b)]
    ELSE graph @@ (a :> <<b>>)
\* the for loop of extract_version_graph: Ok(graph) or the failure
RECURSIVE GraphLoop(_, _, _, _, _)
GraphLoop(st, access_dict, i, max_version, graph) ==
    IF i > max_version THEN Ok(graph)
    ELSE IF i \notin DOMAIN access_dict
    THEN GraphLoop(st, access_dict, i + 1, max_version, graph)
    ELSE LET a == access_dict[i]
             payload == ChainContent(st, a.fid, BlobSeq(a.minv, i))
         IN  IF IsRaised(payload) THEN payload
             ELSE LET dep_on == FromU32BE(PySlice(payload.ok, 0, 4))
                  IN  GraphLoop(st, access_dict, i + 1, max_version,
                                AddEdge(AddEdge(graph, i, dep_on), dep_on, i))
\* Ok([graph, access_dict]) or the failure
extract_version_graph(st, fid) ==
    LET acc == AccessLoop(st, fid, <<>>)
    IN  IF IsRaised(acc) THEN acc
        ELSE LET max_version ==
                     IF DOMAIN acc.ok = {} THEN -1 ELSE SetMax(DOMAIN acc.ok)
                 g == GraphLoop(st, acc.ok, 1, max_version, <<>>)
             IN  IF IsRaised(g) THEN g
                 ELSE Ok([graph |-> g.ok, access_dict |-> acc.ok])

\* the while loop of _bfs: Ok(path) or the failure
RECURSIVE BfsLoop(_, _, _, _)
BfsLoop(graph, queue, visited, end) ==
    IF queue = <<>> THEN Ok(<<>>)
    ELSE LET path == Head(queue)
             current == path[Len(path)]
         IN  IF current = end THEN Ok(path)
             ELSE IF current \notin DOMAIN graph THEN Raised("KeyError")
             ELSE LET ns == SelectSeq(graph[current], LAMBDA n : n \notin visited)
                  IN  BfsLoop(graph,
                              Tail(queue) \o [k \in 1..Len(ns) |-> Append(path, ns[k])],
                              visited \cup {ns[k] : k \in 1..Len(ns)}, end)
_bfs(graph, start, end) ==
    IF DOMAIN graph = {} THEN Raised("ValueError")
    ELSE BfsLoop(graph, << <<start>> >>, {start}, end)

mono_inc(lst) == \A i \in 1..(Len(lst) - 1) : lst[i] < lst[i + 1]
mono_dec(lst) == \A i \in 1..(Len(lst) - 1) : lst[i] > lst[i + 1]
\* _takewhile(not mono_inc, lst)
RECURSIVE _takewhile(_)
_takewhile(lst) ==
    IF lst = <<>> \/ mono_inc(lst) THEN <<>>
    ELSE <<Head(lst)>> \o _takewhile(Tail(lst))

\* the for loops of jump_versions over the steps of a path: the changes of
\* one step, reversed where the step is reverted, then those of the steps
\* after it
Parsed(changes, revert) ==
    IF IsRaised(changes) THEN changes
    ELSE Ok(IF revert THEN reverse_changes(changes.ops) ELSE changes.ops)
StepOps(update_payload, revert) ==
    IF IsRaised(update_payload) THEN update_payload
    ELSE Parsed(bytes_to_changes(update_payload.ok), revert)
Both(r, a) ==
    IF IsRaised(r) THEN r ELSE IF IsRaised(a) THEN a ELSE Ok(r.ok \o a.ok)
RECURSIVE StepChanges(_, _, _)
StepChanges(st, access_dict, steps) ==
    IF steps = <<>> THEN Ok(<<>>)
    ELSE IF Head(steps).step \notin DOMAIN access_dict THEN Raised("KeyError")
    ELSE Both(StepOps(ChainContent(st, access_dict[Head(steps).step].fid,
                                   BlobSeq(access_dict[Head(steps).step].minv,
                                           Head(steps).step)),
                      Head(steps).revert),
              StepChanges(st, access_dict, Tail(steps)))

\* the three kinds of update paths of jump_versions: the steps that are
\* reverted, then the steps that are applied
Steps(path, revert) == [i \in 1..Len(path) |-> [step |-> path[i], revert |-> revert]]
\* the same, were the second half of a mixed path taken from the element
\* after which the path increases
PathStepsThrough(update_path) ==
    IF mono_inc(update_path) THEN Steps(Tail(update_path), FALSE)
    ELSE IF mono_dec(update_path)
    THEN Steps(SubSeq(update_path, 1, Len(update_path) - 1), TRUE)
    ELSE Steps(_takewhile(update_path), TRUE)
         \o Steps(SubSeq(update_path, Len(_takewhile(update_path)) + 1,
                         Len(update_path)),
                  FALSE)
PathSteps(update_path) ==
    IF mono_inc(update_path) THEN Steps(Tail(update_path), FALSE)
    ELSE IF mono_dec(update_path)
    THEN Steps(SubSeq(update_path, 1, Len(update_path) - 1), TRUE)
    ELSE Steps(_takewhile(update_path), TRUE)
         \o Steps(SubSeq(update_path, Len(_takewhile(update_path)) + 2,
                         Len(update_path)),
                  FALSE)
PathChanges(st, access_dict, update_path) ==
    IF update_path = <<>> THEN Raised("IndexError")
    ELSE StepChanges(st, access_dict, PathSteps(update_path))
OnPath(st, access_dict, bfs) ==
    IF IsRaised(bfs) THEN bfs ELSE PathChanges(st, access_dict, bfs.ok)
JumpIn(start, end, st, ga) ==
    IF IsRaised(ga) THEN ga
    ELSE IF DOMAIN ga.ok.access_dict = {} THEN Raised("ValueError")
    ELSE IF \/ start > SetMax(DOMAIN ga.ok.access_dict)
            \/ end > SetMax(DOMAIN ga.ok.access_dict)
    THEN Ok(<<>>)
    ELSE OnPath(st, ga.ok.access_dict, _bfs(ga.ok.graph, start, end))
\* Ok(changes) or the failure
jump_versions(start, end, st, fid) ==
    IF start = end THEN Ok(<<>>)
    ELSE JumpIn(start, end, st, extract_version_graph(st, fid))

(* --------------------- VersionManager: construction --------------------- *)
NoDict == <<>>
DictSet(d, k, v) == [x \in DOMAIN d \cup {k} |-> IF x = k THEN v ELSE d[x]]
DictDel(d, k) == [x \in DOMAIN d \ {k} |-> d[x]]
NoConfig ==
    [saved |-> FALSE, vc_dict |-> NoDict, apply_queue |-> NoDict,
     apply_dict |-> NoDict, update_fid |-> NoFid]
\* no VersionManager object; may_update is "unset" while the attribute has
\* never been assigned
NoManager ==
    [live |-> FALSE, vc_dict |-> NoDict, apply_queue |-> NoDict,
     apply_dict |-> NoDict, update_feed |-> NoFid, vc_feed |-> NoFid,
     may_update |-> "unset"]
get_feed(st, fid) == IF Present(st, fid) THEN fid ELSE NoFid
Children(st, fid) == get_children(st.head[fid], st.log[fid])

_save_config(st) ==
    IF st.mgr.update_feed = NoFid THEN Raise(st, "AssertionError")
    ELSE [st EXCEPT !.cfg = [saved |-> TRUE, vc_dict |-> st.mgr.vc_dict,
                             apply_queue |-> st.mgr.apply_queue,
                             apply_dict |-> st.mgr.apply_dict,
                             update_fid |-> st.mgr.update_feed]]

_load_config(st) ==
    IF ~st.cfg.saved
    THEN [st EXCEPT !.mgr.vc_dict = NoDict, !.mgr.apply_queue = NoDict,
                    !.mgr.apply_dict = NoDict]
    ELSE LET s1 == [st EXCEPT !.mgr.vc_dict = st.cfg.vc_dict,
                              !.mgr.apply_queue = st.cfg.apply_queue,
                              !.mgr.apply_dict = st.cfg.apply_dict,
                              !.mgr.update_feed = get_feed(st, st.cfg.update_fid)]
         IN  IF s1.mgr.update_feed = NoFid THEN Raise(s1, "AttributeError")
             ELSE LET children == Children(s1, s1.mgr.update_feed)
                  IN  IF Len(children) > 1
                      THEN [s1 EXCEPT !.mgr.vc_feed = get_feed(s1, children[1])]
                      ELSE s1

\* VersionManager(feed_manager)
__init__(st) ==
    LET s1 == _load_config([st EXCEPT !.mgr = [NoManager EXCEPT !.live = TRUE],
                                     !.exc = ""])
    IN  IF s1.exc # "" THEN [s1 EXCEPT !.mgr = NoManager]
        ELSE IF s1.mgr.update_feed = NoFid
        THEN [s1 EXCEPT !.mgr.may_update = "false"]
        ELSE IF s1.mgr.update_feed \in s1.keys
        THEN [s1 EXCEPT !.mgr.may_update = "true"]
        ELSE s1

\* __del__
__del__(st) == [_save_config(st) EXCEPT !.mgr = NoManager]

register_callback(st, fid, cb) == [st EXCEPT !.cbs = @ \cup {<<fid, cb>>}]
remove_callback(st, fid, cb) == [st EXCEPT !.cbs = @ \ {<<fid, cb>>}]

\* the for loop of _register_callbacks over vc_dict
RECURSIVE RegisterFiles(_, _)
RegisterFiles(st, names) ==
    IF names = {} THEN st
    ELSE LET k == CHOOSE x \in names : TRUE
             e == st.mgr.vc_dict[k]
         IN  RegisterFiles(
                 register_callback(register_callback(st, e[1], "file"),
                                   e[2], "emergency"),
                 names \ {k})
_register_callbacks(st) ==
    IF st.mgr.update_feed = NoFid THEN st
    ELSE LET s1 == register_callback(st, st.mgr.update_feed, "update")
             children == Children(s1, s1.mgr.update_feed)
         IN  IF Len(children) < 1 THEN s1
             ELSE RegisterFiles(register_callback(s1, children[1], "vc"),
                                DOMAIN s1.mgr.vc_dict)

\* FeedManager.generate_keypair: the fid of a key pair no one has made before
FreshFids(st) == {f \in DOMAIN st.head : f \notin st.keys /\ st.head[f] = NoFeed}
generate_keypair(st) == CHOOSE f \in FreshFids(st) : \A g \in FreshFids(st) : f <= g
ChildOf(st, pfid, cfid) ==
    LET res == create_child_feed(st.head[pfid], st.log[pfid], <<>>,
                                 KeyOf(pfid), cfid, KeyOf(cfid))
    IN  [st EXCEPT !.head[pfid] = res[1], !.log[pfid] = res[2],
                   !.head[cfid] = res[3], !.log[cfid] = res[4],
                   !.keys = @ \cup {cfid}]
add_upd(st, fid, file_name, v_number) ==
    Put(st, fid, add_upd_file_name(st.head[fid], st.log[fid], file_name,
                                   KeyOf(fid), v_number))

\* the body of the for loop of set_update_feed for one file
\* the body where the emergency feed is made before the updfile packet
TrackFileEarly(st, f) ==
    LET cfid == generate_keypair(st)
        s0 == ChildOf(st, st.mgr.update_feed, cfid)
        efid == generate_keypair(s0)
        s2 == add_upd(ChildOf(s0, cfid, efid), cfid, f, 0)
    IN  _save_config([s2 EXCEPT !.mgr.vc_dict = DictSet(@, f, <<cfid, efid>>),
                                !.mgr.apply_dict = DictSet(@, f, 0)])
TrackFile(st, f) ==
    LET cfid == generate_keypair(st)
        s1 == add_upd(ChildOf(st, st.mgr.update_feed, cfid), cfid, f, 0)
        efid == generate_keypair(s1)
        s2 == ChildOf(s1, cfid, efid)
    IN  _save_config([s2 EXCEPT !.mgr.vc_dict = DictSet(@, f, <<cfid, efid>>),
                                !.mgr.apply_dict = DictSet(@, f, 0)])
RECURSIVE TrackFiles(_, _)
TrackFiles(st, names) ==
    IF names = {} \/ st.exc # "" THEN st
    ELSE LET f == CHOOSE x \in names : TRUE
         IN  TrackFiles(IF f \in DOMAIN st.mgr.vc_dict THEN st
                        ELSE TrackFile(st, f), names \ {f})

set_update_feed(st, update_feed) ==
    LET s0 == [st EXCEPT !.mgr.update_feed = update_feed]
        children == Children(s0, update_feed)
        s1 == IF Len(children) >= 1
              THEN LET s == [s0 EXCEPT !.mgr.vc_feed = get_feed(s0, children[1])]
                   IN  IF s.mgr.vc_feed = NoFid THEN Raise(s, "AssertionError")
                       ELSE s
              ELSE s0
    IN  IF s1.exc # "" THEN s1
        ELSE IF update_feed \notin s1.keys
        THEN _register_callbacks([s1 EXCEPT !.mgr.may_update = "false"])
        ELSE TrackFiles([s1 EXCEPT !.mgr.may_update = "true"], DOMAIN s1.files)

\* create_new_file; create_dirs_and_file makes the empty file
FileMade(st, file_name) == [st EXCEPT !.files = DictSet(@, file_name, << <<>> >>)]
create_new_file(st, file_name) ==
    IF st.mgr.update_feed = NoFid THEN Raise(st, "AssertionError")
    ELSE IF file_name \in DOMAIN st.files THEN st
    ELSE IF st.mgr.update_feed \notin st.keys
    THEN Raise(FileMade(st, file_name), "AssertionError")
    ELSE TrackFile(FileMade(st, file_name), file_name)

(* ----------------------- VersionManager: applying ----------------------- *)
\* the three places of _apply_update that put the version into apply_queue
\* the three places of _apply_update that queue, were a version already
\* pending for the feed kept
EnqueueKept(st, fid, int_seq) ==
    IF fid \in DOMAIN st.mgr.apply_queue THEN st
    ELSE _save_config([st EXCEPT !.mgr.apply_queue = DictSet(@, fid, int_seq)])
Enqueue(st, fid, int_seq) ==
    IF fid \in DOMAIN st.mgr.apply_queue /\ st.mgr.apply_queue[fid] = int_seq
    THEN st
    ELSE _save_config([st EXCEPT !.mgr.apply_queue = DictSet(@, fid, int_seq)])

\* _apply_update from "f = open(file_name, 'w')" on
Written(st, fid, file_name, int_seq, new_content) ==
    IF IsRaised(new_content) THEN Raise(st, new_content.exc)
    ELSE _save_config([st EXCEPT !.files[file_name] = new_content.ok,
                                 !.mgr.apply_queue = DictDel(@, fid),
                                 !.mgr.apply_dict[file_name] = int_seq])
\* _apply_update from "new_content = apply_changes(content, changes)" on
Jumped(st, fid, file_name, int_seq, changes) ==
    IF IsRaised(changes) THEN Raise(st, changes.exc)
    ELSE Written(st, fid, file_name, int_seq,
                 apply_changes(st.files[file_name], changes.ok))
\* _apply_update from "assert fn_v_tuple is not None" on, were the version
\* already applied not looked at
ApplyFromAnew(st, fid, int_seq, fn_v_tuple) ==
    IF IsRaised(fn_v_tuple) THEN Raise(st, fn_v_tuple.exc)
    ELSE IF IsNone(fn_v_tuple) THEN Raise(st, "AssertionError")
    ELSE IF length(st.head[fid]) - 3 + fn_v_tuple.v < int_seq
    THEN Enqueue(st, fid, int_seq)
    ELSE IF /\ length(st.head[fid]) - 3 + fn_v_tuple.v = int_seq
            /\ ~IsNone(WaitingFor(st.head[fid], st.log[fid], st.blobs))
    THEN Enqueue(st, fid, int_seq)
    ELSE IF fn_v_tuple.name \notin DOMAIN st.files THEN Raise(st, "OSError")
    ELSE IF fn_v_tuple.name \notin DOMAIN st.mgr.apply_dict THEN Raise(st, "KeyError")
    ELSE Jumped(st, fid, fn_v_tuple.name, int_seq,
                jump_versions(st.mgr.apply_dict[fn_v_tuple.name], int_seq, st, fid))
\* _apply_update from "assert fn_v_tuple is not None" on
ApplyFrom(st, fid, int_seq, fn_v_tuple) ==
    IF IsRaised(fn_v_tuple) THEN Raise(st, fn_v_tuple.exc)
    ELSE IF IsNone(fn_v_tuple) THEN Raise(st, "AssertionError")
    ELSE IF length(st.head[fid]) - 3 + fn_v_tuple.v < int_seq
    THEN Enqueue(st, fid, int_seq)
    ELSE IF /\ length(st.head[fid]) - 3 + fn_v_tuple.v = int_seq
            /\ ~IsNone(WaitingFor(st.head[fid], st.log[fid], st.blobs))
    THEN Enqueue(st, fid, int_seq)
    ELSE IF fn_v_tuple.name \notin DOMAIN st.files THEN Raise(st, "OSError")
    ELSE IF fn_v_tuple.name \notin DOMAIN st.mgr.apply_dict THEN Raise(st, "KeyError")
    ELSE IF int_seq = st.mgr.apply_dict[fn_v_tuple.name] THEN st
    ELSE Jumped(st, fid, fn_v_tuple.name, int_seq,
                jump_versions(st.mgr.apply_dict[fn_v_tuple.name], int_seq, st, fid))
\* seq is the 4 bytes of an applyup packet, [bytes |-> n], or the int that
\* apply_queue holds, [int |-> n]; int.from_bytes takes bytes only
_apply_update(st, fid, seq) ==
    IF st.mgr.vc_feed = NoFid THEN Raise(st, "AssertionError")
    ELSE IF "int" \in DOMAIN seq THEN Raise(st, "TypeError")
    ELSE IF ~Present(st, fid) THEN Enqueue(st, fid, seq.bytes)
    ELSE ApplyFrom(st, fid, seq.bytes, get_upd(st.head[fid], st.log[fid]))

(* ----------------------- VersionManager: authoring ---------------------- *)
\* "if not self.may_update" where the attribute is never looked at
MayNotSkipped(st) == FALSE
\* "if not self.may_update"; reading the attribute raises while it is unset
MayNot(st) == st.mgr.may_update = "false"
Unset(st) == st.mgr.may_update = "unset"
\* minv + length(feed) - 3 of the file feed fid
NewestOf(st, fid) == get_upd(st.head[fid], st.log[fid]).v + length(st.head[fid]) - 3
FromNewest(v, newest) == IF v < 0 THEN v + newest + 1 ELSE v

\* update_file from "update_changes = get_changes(current_file, update)" on
DiffFrom(st, fid, update, dep, current_file) ==
    IF IsRaised(current_file) THEN Raise(st, current_file.exc)
    ELSE LET res == append_blob_to_feed(st.head[fid], st.log[fid], st.blobs,
                        changes_to_bytes(get_changes(current_file.ok, update), dep),
                        KeyOf(fid))
         IN  [st EXCEPT !.head[fid] = res[1], !.log[fid] = res[2],
                        !.blobs = res[3]]
\* update_file from "current_file = apply_changes(current_file, changes)" on
AtDep(st, fid, file_name, update, dep, changes) ==
    IF IsRaised(changes) THEN Raise(st, changes.exc)
    ELSE DiffFrom(st, fid, update, dep,
                  apply_changes(st.files[file_name], changes.ok))
\* update_file from "if dep > current_v" on, were the dependency not looked at
UpdateInAny(st, fid, file_name, update, dep, current_v) ==
    AtDep(st, fid, file_name, update, dep,
          jump_versions(st.mgr.apply_dict[file_name], dep, st, fid))
\* update_file from "if dep > current_v" on
UpdateIn(st, fid, file_name, update, dep, current_v) ==
    IF dep > current_v THEN st
    ELSE AtDep(st, fid, file_name, update, dep,
               jump_versions(st.mgr.apply_dict[file_name], dep, st, fid))
update_file(st, file_name, update, dep) ==
    IF st.mgr.vc_feed = NoFid THEN Raise(st, "AssertionError")
    ELSE IF Unset(st) THEN Raise(st, "AttributeError")
    ELSE IF MayNot(st) THEN st
    ELSE IF file_name \notin DOMAIN st.mgr.vc_dict THEN st
    ELSE IF ~Present(st, st.mgr.vc_dict[file_name][1])
    THEN Raise(st, "AssertionError")
    ELSE IF file_name \notin DOMAIN st.files THEN Raise(st, "OSError")
    ELSE UpdateIn(st, st.mgr.vc_dict[file_name][1], file_name, update,
                  FromNewest(dep, NewestOf(st, st.mgr.vc_dict[file_name][1])),
                  NewestOf(st, st.mgr.vc_dict[file_name][1]))

\* add_apply where "if current_version_num < v_num: return" is left out
AddApplyUnchecked(st, fid, v_num, current_version_num) ==
    _apply_update(
        Put(st, st.mgr.vc_feed,
            add_apply(st.head[st.mgr.vc_feed], st.log[st.mgr.vc_feed], fid,
                      v_num, KeyOf(st.mgr.vc_feed))),
        fid, [bytes |-> v_num])
\* VersionManager.add_apply from "if current_version_num < v_num" on
AddApplyIn(st, fid, v_num, current_version_num) ==
    IF current_version_num < v_num THEN st
    ELSE IF st.mgr.vc_feed \notin st.keys THEN Raise(st, "KeyError")
    ELSE IF v_num < 0 THEN Raise(st, "OverflowError")
    ELSE _apply_update(
             Put(st, st.mgr.vc_feed,
                 add_apply(st.head[st.mgr.vc_feed], st.log[st.mgr.vc_feed], fid,
                           v_num, KeyOf(st.mgr.vc_feed))),
             fid, [bytes |-> v_num])
\* VersionManager.add_apply
vm_add_apply(st, file_name, v_num) ==
    IF st.mgr.vc_feed = NoFid THEN Raise(st, "AssertionError")
    ELSE IF Unset(st) THEN Raise(st, "AttributeError")
    ELSE IF MayNot(st) THEN st
    ELSE IF file_name \notin DOMAIN st.mgr.vc_dict THEN st
    ELSE AddApplyIn(st, st.mgr.vc_dict[file_name][1],
                    FromNewest(v_num, NewestOf(st, st.mgr.vc_dict[file_name][1])),
                    NewestOf(st, st.mgr.vc_dict[file_name][1]))

\* emergency_update_file: its last three lines, the calls of update_file and
\* add_apply before them, and the lines from generate_keypair to _save_config
Swapped(st, emgcy_fid, nfid) ==
    IF st.exc # "" THEN st
    ELSE register_callback(
             register_callback(remove_callback(st, emgcy_fid, "emergency"),
                               emgcy_fid, "file"),
             nfid, "emergency")
ThenApply(st, file_name, v_num) ==
    IF st.exc # "" THEN st ELSE vm_add_apply(st, file_name, v_num)
ThenUpdate(st, file_name, update, depends_on) ==
    IF st.exc # "" THEN st ELSE update_file(st, file_name, update, depends_on)
\* the rotation where the entry of vc_dict is left as it is
RotatedInPlace(st, file_name, emgcy_fid, nfid) ==
    _save_config(ChildOf(st, emgcy_fid, nfid))
Rotated(st, file_name, emgcy_fid, nfid) ==
    _save_config([ChildOf(st, emgcy_fid, nfid) EXCEPT
                     !.mgr.vc_dict[file_name] = <<emgcy_fid, nfid>>])
EmergencyWith(st, file_name, update, depends_on, emgcy_fid, nfid, maxv) ==
    Swapped(ThenApply(ThenUpdate(Rotated(st, file_name, emgcy_fid, nfid),
                                 file_name, update, depends_on),
                      file_name, maxv + 1),
            emgcy_fid, nfid)
EmergencyIn(st, file_name, update, depends_on, old_fid, emgcy_fid, maxv) ==
    IF emgcy_fid \notin st.keys THEN Raise(st, "AssertionError")
    ELSE EmergencyWith(add_upd(remove_callback(st, old_fid, "file"), emgcy_fid,
                               file_name, maxv),
                       file_name, update, depends_on, emgcy_fid,
                       generate_keypair(st), maxv)
emergency_update_file(st, file_name, update, depends_on) ==
    IF st.mgr.vc_feed = NoFid THEN Raise(st, "AssertionError")
    ELSE IF Unset(st) THEN Raise(st, "AttributeError")
    ELSE IF MayNot(st) THEN st
    ELSE IF file_name \notin DOMAIN st.mgr.vc_dict THEN st
    ELSE EmergencyIn(st, file_name, update, depends_on,
                     st.mgr.vc_dict[file_name][1], st.mgr.vc_dict[file_name][2],
                     NewestOf(st, st.mgr.vc_dict[file_name][1]))

(* ----------------------- VersionManager: callbacks ---------------------- *)
FrontType(st, fid) == get_wire(st.head[fid], st.log[fid], -1).type
Waiting(st, fid) == ~IsNone(WaitingFor(st.head[fid], st.log[fid], st.blobs))

_update_feed_callback(st, fid) ==
    IF st.mgr.update_feed = NoFid \/ st.mgr.update_feed # fid
    THEN Raise(st, "AssertionError")
    ELSE IF Waiting(st, fid) THEN st
    ELSE IF st.mgr.vc_feed # NoFid
    THEN IF Children(st, fid) = <<>> THEN Raise(st, "IndexError")
         ELSE register_callback(st, Children(st, fid)[Len(Children(st, fid))], "file")
    ELSE IF Len(Children(st, fid)) < 1 THEN st
    ELSE IF ~Present(st, Children(st, fid)[1]) THEN Raise(st, "AssertionError")
    ELSE register_callback([st EXCEPT !.mgr.vc_feed = Children(st, fid)[1]],
                           Children(st, fid)[1], "vc")

\* _vc_feed_callback for the front packet of the version control feed
OnApplyup(st, wire) ==
    IF IsRaised(wire) THEN Raise(st, wire.exc)
    ELSE IF wire.type = APPLYUP
    THEN _apply_update(st, wire.payload.fid, [bytes |-> wire.payload.n])
    ELSE st
_vc_feed_callback(st, fid) ==
    IF st.mgr.vc_feed = NoFid THEN Raise(st, "AssertionError")
    ELSE OnApplyup(st, get_wire(st.head[st.mgr.vc_feed], st.log[st.mgr.vc_feed], -1))

\* _file_feed_callback: the branch of each front type
OnChain(st, fid) ==
    IF fid \in DOMAIN st.mgr.apply_queue
    THEN _apply_update(st, fid, [int |-> st.mgr.apply_queue[fid]])
    ELSE st
OnMkchild(st, fid, fn_v_tuple, emergency_fid) ==
    IF IsRaised(fn_v_tuple) THEN Raise(st, fn_v_tuple.exc)
    ELSE IF IsNone(fn_v_tuple) THEN Raise(st, "AssertionError")
    ELSE _save_config(
             [register_callback(st, emergency_fid, "emergency") EXCEPT
                !.mgr.vc_dict = DictSet(@, fn_v_tuple.name, <<fid, emergency_fid>>),
                !.mgr.apply_dict = IF fn_v_tuple.name \in DOMAIN @ THEN @
                                   ELSE DictSet(@, fn_v_tuple.name, fn_v_tuple.v)])
OnUpdfile(st, fn_v_tuple) ==
    IF IsRaised(fn_v_tuple) THEN Raise(st, fn_v_tuple.exc)
    ELSE IF IsNone(fn_v_tuple) THEN Raise(st, "AssertionError")
    ELSE IF fn_v_tuple.name \in DOMAIN st.files THEN st
    ELSE [st EXCEPT !.files = DictSet(@, fn_v_tuple.name, << <<>> >>)]
_file_feed_callback(st, fid) ==
    IF ~Present(st, fid) THEN Raise(st, "AssertionError")
    ELSE IF Waiting(st, fid) THEN st
    ELSE IF FrontType(st, fid) = CHAIN20 THEN OnChain(st, fid)
    ELSE IF FrontType(st, fid) = MKCHILD
    THEN OnMkchild(st, fid, get_upd(st.head[fid], st.log[fid]), Children(st, fid)[1])
    ELSE IF FrontType(st, fid) = UPDFILE
    THEN OnUpdfile(st, get_upd(st.head[fid], st.log[fid]))
    ELSE st

\* the same, were the callbacks of the old feeds left in place
OnRotationKept(st, fid, parent_fid, emergency_fid, fn_v_tuple) ==
    IF parent_fid = NoFid THEN Raise(st, "AssertionError")
    ELSE IF IsRaised(fn_v_tuple)
    THEN Raise(st, fn_v_tuple.exc)
    ELSE IF IsNone(fn_v_tuple) THEN Raise(st, "AssertionError")
    ELSE _save_config(
             [register_callback(register_callback(st, fid, "file"),
                                emergency_fid, "emergency")
              EXCEPT !.mgr.vc_dict =
                         DictSet(@, fn_v_tuple.name, <<fid, emergency_fid>>)])
\* _emergency_feed_callback where the front packet is the feed's mkchild
OnRotation(st, fid, parent_fid, emergency_fid, fn_v_tuple) ==
    IF parent_fid = NoFid THEN Raise(st, "AssertionError")
    ELSE IF IsRaised(fn_v_tuple)
    THEN Raise(st, fn_v_tuple.exc)
    ELSE IF IsNone(fn_v_tuple) THEN Raise(st, "AssertionError")
    ELSE _save_config(
             [register_callback(
                  register_callback(
                      remove_callback(remove_callback(st, parent_fid, "file"),
                                      fid, "emergency"),
                      fid, "file"),
                  emergency_fid, "emergency")
              EXCEPT !.mgr.vc_dict =
                         DictSet(@, fn_v_tuple.name, <<fid, emergency_fid>>)])
_emergency_feed_callback(st, fid) ==
    IF ~Present(st, fid) THEN Raise(st, "AssertionError")
    ELSE IF Waiting(st, fid) THEN st
    ELSE IF FrontType(st, fid) # MKCHILD THEN st
    ELSE OnRotation(st, fid, parent(st.head[fid], st.log[fid]),
                    Children(st, fid)[1], get_upd(st.head[fid], st.log[fid]))

\* the registry's dispatch(fid): the callbacks registered for fid when the
\* dispatch starts, in the order update, vc, file, emergency; an exception
\* ends the dispatch
Callback(st, fid, cb) ==
    IF st.exc # "" THEN st
    ELSE IF cb = "update" THEN _update_feed_callback(st, fid)
    ELSE IF cb = "vc" THEN _vc_feed_callback(st, fid)
    ELSE IF cb = "file" THEN _file_feed_callback(st, fid)
    ELSE _emergency_feed_callback(st, fid)
Run(st, cbs, fid, cb) == IF <<fid, cb>> \in cbs THEN Callback(st, fid, cb) ELSE st
RECURSIVE RunAll(_, _, _, _)
RunAll(st, cbs, fid, order) ==
    IF order = <<>> THEN st
    ELSE RunAll(Run(st, cbs, fid, Head(order)), cbs, fid, Tail(order))
dispatch(st, fid) == RunAll(st, st.cbs, fid, <<"update", "vc", "file", "emergency">>)

(* ------------------- runs of the version manager ----------------------- *)
VFIDS == 1..MaxFid
UpdateFid == 1
VcFid == 2
FileName == "f.txt"
Untracked == "g.txt"
Names == {FileName, Untracked}
Line118 == [i \in 1..118 |-> 65]
Texts == {<< <<1>>, <<2>> >>, <<Line118>>}
Deps == -1..(MaxUpd - 1)
Versions == -1..(MaxUpd + 1)

St(n) ==
    [head |-> head[n], log |-> log[n], blobs |-> blobs[n], keys |-> vm[n].keys,
     cbs |-> vm[n].cbs, files |-> vm[n].files, cfg |-> vm[n].cfg,
     mgr |-> vm[n].mgr, exc |-> ""]
Commit(n, st) ==
    /\ head' = [head EXCEPT ![n] = st.head]
    /\ log' = [log EXCEPT ![n] = st.log]
    /\ blobs' = [blobs EXCEPT ![n] = st.blobs]
    /\ vm' = [vm EXCEPT ![n] = [keys |-> st.keys, cbs |-> st.cbs,
                                files |-> st.files, cfg |-> st.cfg,
                                mgr |-> st.mgr]]
    /\ UNCHANGED arg

\* the author holds the update feed and its first child, the version control
\* feed, and the work files given; the replica knows the update feed's id;
\* on both a VersionManager has been made where no update_cfg.json exists
InitWith(files) ==
    LET made == create_child_feed(create_feed(UpdateFid, 0, Fid20(UpdateFid), 0, ZeroFid),
                                  <<>>, <<>>, KeyOf(UpdateFid), VcFid, KeyOf(VcFid))
        blank == [head |-> [f \in VFIDS |-> NoFeed], log |-> [f \in VFIDS |-> <<>>],
                  blobs |-> {}, keys |-> {}, cbs |-> {}, files |-> NoDict,
                  cfg |-> NoConfig, mgr |-> NoManager, exc |-> ""]
        a == __init__([blank EXCEPT !.head[UpdateFid] = made[1],
                                    !.log[UpdateFid] = made[2],
                                    !.head[VcFid] = made[3],
                                    !.log[VcFid] = made[4],
                                    !.keys = {UpdateFid, VcFid},
                                    !.files = files])
        r == __init__([blank EXCEPT !.head[UpdateFid] =
                           create_feed(UpdateFid, 0, Fid20(UpdateFid), 0, ZeroFid)])
        of == [n \in NODES |-> IF n = Author THEN a ELSE r]
    IN  /\ head = [n \in NODES |-> of[n].head]
        /\ log = [n \in NODES |-> of[n].log]
        /\ blobs = [n \in NODES |-> of[n].blobs]
        /\ vm = [n \in NODES |-> [keys |-> of[n].keys, cbs |-> of[n].cbs,
                                  files |-> of[n].files, cfg |-> of[n].cfg,
                                  mgr |-> of[n].mgr]]
        /\ arg = None
InitVm == InitWith(DictSet(NoDict, FileName, << <<>> >>))
\* the author's directory holds the work file or no file yet
InitAuthor == \E files \in {NoDict, DictSet(NoDict, FileName, << <<>> >>)} : InitWith(files)

Live(n) == vm[n].mgr.live
\* the file feed a call for name appends to, NoFid where there is none
FileFeed(n, name) ==
    IF name \in DOMAIN vm[n].mgr.vc_dict THEN vm[n].mgr.vc_dict[name][1] ELSE NoFid
Room(n, name) ==
    IF FileFeed(n, name) = NoFid THEN TRUE
    ELSE length(head[n][FileFeed(n, name)]) - 3 < MaxUpd

VcRoom(n) ==
    IF head[n][VcFid] = NoFeed THEN TRUE
    ELSE length(head[n][VcFid]) - 1 < MaxApply

SetUpdateFeed(n) ==
    /\ Live(n)
    /\ Cardinality(FreshFids(St(n))) >= 2
    /\ Commit(n, set_update_feed(St(n), UpdateFid))

CreateNewFile(n, name) ==
    /\ Live(n)
    /\ Cardinality(FreshFids(St(n))) >= 2
    /\ Commit(n, create_new_file(St(n), name))

UpdateFile(n, name, text, dep) ==
    /\ Live(n)
    /\ Room(n, name)
    /\ Commit(n, update_file(St(n), name, text, dep))

VmAddApply(n, name, v) ==
    /\ Live(n)
    /\ VcRoom(n)
    /\ Commit(n, vm_add_apply(St(n), name, v))

EmergencyUpdateFile(n, name, text, dep) ==
    /\ Live(n)
    /\ FreshFids(St(n)) # {}
    /\ VcRoom(n)
    /\ Commit(n, emergency_update_file(St(n), name, text, dep))

\* the process of node n ends and starts again: __del__ writes the snapshot,
\* the registry of the new process holds no callbacks, __init__ reads it
Restart(n) ==
    /\ Live(n)
    /\ Commit(n, __init__([__del__(St(n)) EXCEPT !.cbs = {}]))

\* the replica, whose manager has been given the update feed, is handed the
\* author's next packet of feed f; the registry opens the feed with its first
\* packet and dispatches the callbacks
ReceivePacket(f) ==
    LET st == St(Replica)
        k == IF st.head[f] = NoFeed THEN 0 ELSE length(st.head[f])
        feed == IF st.head[f] = NoFeed
                THEN create_feed(f, 0, Fid20(f), 0, ZeroFid) ELSE st.head[f]
        wire == log[Author][f][k + 1]
        pkt == [wire |-> wire, mid |-> MidOf(f, k + 1, feed.front_mid, wire)]
    IN  /\ vm[Replica].mgr.update_feed # NoFid
        /\ head[Author][f] # NoFeed
        /\ k < Len(log[Author][f])
        /\ IF st.head[f] = NoFeed THEN TRUE
           ELSE IsNone(WaitingFor(st.head[f], st.log[f], st.blobs))
        /\ Commit(Replica, dispatch(Put(st, f, append_packet(feed, st.log[f], pkt)), f))

\* the replica is handed the blob its feed f waits for
ReceiveBlob(f) ==
    LET st == St(Replica)
        ptr == WaitingFor(st.head[f], st.log[f], st.blobs)
        s1 == [st EXCEPT !.blobs = WriteBlobFile(@, ptr, ReadBlobFile(blobs[Author], ptr))]
    IN  /\ st.head[f] # NoFeed
        /\ ~IsNone(ptr)
        /\ HasBlobFile(blobs[Author], ptr)
        /\ Commit(Replica,
                  IF IsNone(WaitingFor(s1.head[f], s1.log[f], s1.blobs))
                  THEN dispatch(s1, f) ELSE s1)

\* the calls made of the three authoring methods: the author's for the
\* tracked file with every text and version, and one call each for a file
\* that is not tracked and by the replica
OtherCalls == {<<Author, Untracked>>, <<Replica, FileName>>}
UpdateCalls ==
    ({Author} \X {FileName} \X Texts \X Deps)
    \cup {<<c[1], c[2], << <<1>> >>, -1>> : c \in OtherCalls}
ApplyCalls ==
    ({Author} \X {FileName} \X Versions) \cup {<<c[1], c[2], 0>> : c \in OtherCalls}

NextVm ==
    \/ \E n \in NODES : SetUpdateFeed(n)
    \/ \E c \in UpdateCalls : UpdateFile(c[1], c[2], c[3], c[4])
    \/ \E c \in ApplyCalls : VmAddApply(c[1], c[2], c[3])
    \/ \E c \in UpdateCalls : EmergencyUpdateFile(c[1], c[2], c[3], c[4])
    \/ \E n \in NODES : Restart(n)
    \/ \E name \in Names : CreateNewFile(Author, name)

VmSpec == InitAuthor /\ [][NextVm]_vars

(* --------------------- the replica follows the author ------------------- *)
\* the author makes one update after another, each too long for one packet,
\* and applies one; the replica calls the authoring methods as well
Line30 == [i \in 1..30 |-> 66]
FollowUpdates ==
    {<<Author, FileName, <<Line30>>, -1>>, <<Replica, FileName, << <<1>> >>, -1>>}
FollowApplies ==
    {<<Author, FileName, 1>>, <<Author, FileName, 2>>, <<Replica, FileName, 0>>}
\* the author writes before the replica receives: a delivery depends only on
\* the packets before it, so the author's later steps commute with it
Quiet == \A f \in VFIDS : log[Replica][f] = <<>>
NextFollow ==
    \/ \E n \in NODES : Quiet /\ SetUpdateFeed(n)
    \/ \E c \in FollowUpdates : (c[1] = Author => Quiet) /\ UpdateFile(c[1], c[2], c[3], c[4])
    \/ \E c \in FollowApplies : (c[1] = Author => Quiet) /\ VmAddApply(c[1], c[2], c[3])
    \/ \E c \in FollowUpdates :
           (c[1] = Author => Quiet) /\ EmergencyUpdateFile(c[1], c[2], c[3], c[4])
    \/ \E f \in VFIDS : ReceivePacket(f)
    \/ \E f \in VFIDS : ReceiveBlob(f)

FollowSpec == InitVm /\ [][NextFollow]_vars

(* ================= properties of the version manager ==================== *)
\* the key of the update feed of node n's manager is in the registry's keys
KeyHeld(n) ==
    vm[n].mgr.update_feed # NoFid /\ vm[n].mgr.update_feed \in vm[n].keys

\* C20: wherever a VersionManager exists, made without a snapshot or from the
\* snapshot of an author or of a follower, and after every set_update_feed,
\* may_update is defined, and it is true exactly if the key of update_feed is
\* held; it is false where no update feed is configured.
C20_MayUpdate ==
    \A n \in NODES :
        Live(n) =>
            /\ vm[n].mgr.may_update # "unset"
            /\ vm[n].mgr.may_update = "true" <=> KeyHeld(n)

\* what a call that authors nothing leaves alone: the feeds and their
\* packets and blobs, vc_dict, apply_queue, apply_dict and the work files
Frame(st, after) ==
    /\ after.head = st.head
    /\ after.log = st.log
    /\ after.blobs = st.blobs
    /\ after.mgr.vc_dict = st.mgr.vc_dict
    /\ after.mgr.apply_queue = st.mgr.apply_queue
    /\ after.mgr.apply_dict = st.mgr.apply_dict
    /\ after.files = st.files
\* the call was logged and ignored: it returned, and changed nothing
Ignored(st, after) == Frame(st, after) /\ after.exc = ""

\* C19: where may_update is false, update_file, emergency_update_file and
\* add_apply return without appending a packet to any feed, without creating
\* a feed and without changing vc_dict, apply_queue, apply_dict or a work
\* file, whatever file, text and version they are called with.
C19_FollowerFrame ==
    \A n \in NODES :
        (Live(n) /\ vm[n].mgr.may_update = "false" /\ vm[n].mgr.vc_feed # NoFid) =>
            /\ \A name \in Names, text \in Texts, dep \in Deps :
                   /\ Ignored(St(n), update_file(St(n), name, text, dep))
                   /\ Ignored(St(n), emergency_update_file(St(n), name, text, dep))
            /\ \A name \in Names, v \in Versions :
                   Ignored(St(n), vm_add_apply(St(n), name, v))
\* the replica follows a version control feed and tracks the file, whose
\* file feed it holds, and cannot author
C19_Witness ==
    /\ Live(Replica)
    /\ vm[Replica].mgr.may_update = "false"
    /\ vm[Replica].mgr.vc_feed # NoFid
    /\ FileName \in DOMAIN vm[Replica].mgr.vc_dict
    /\ head[Replica][vm[Replica].mgr.vc_dict[FileName][1]] # NoFeed
    /\ length(head[Replica][vm[Replica].mgr.vc_dict[FileName][1]]) >= 3

\* the manager of node n may author: its update feed's key is held and its
\* version control feed is bound
Authoring(n) ==
    Live(n) /\ vm[n].mgr.may_update = "true" /\ vm[n].mgr.vc_feed # NoFid
\* the version that v names in the tracked feed of name at node n, whose
\* newest version is the last of its blobs
NewestAt(n, name) == NewestOf(St(n), FileFeed(n, name))
Named(n, name, v) == FromNewest(v, NewestAt(n, name))
\* the versions whose blobs the tracked feed of name holds
InFeed(n, name) ==
    {v \in Versions : /\ v > get_upd(head[n][FileFeed(n, name)], log[n][FileFeed(n, name)]).v
                 /\ v <= NewestAt(n, name)}

\* the log of the version control feed of after is that of st and one
\* applyup packet for file feed fid and version v
OneApplyup(st, after, fid, v) ==
    LET vc == st.mgr.vc_feed
    IN  /\ Len(after.log[vc]) = Len(st.log[vc]) + 1
        /\ SubSeq(after.log[vc], 1, Len(st.log[vc])) = st.log[vc]
        /\ after.head[vc].front_seq = st.head[vc].front_seq + 1
        /\ after.log[vc][Len(after.log[vc])].type = APPLYUP
        /\ after.log[vc][Len(after.log[vc])].payload = FidPayload(fid, v, Zero12)
        /\ \A f \in DOMAIN st.log : f # vc => after.log[f] = st.log[f]

\* C17: add_apply(name, v) on the author, for a tracked file and a version
\* that its tracked feed holds (a negative v counts from the newest), appends
\* exactly one applyup packet file_fid || v to the version control feed and
\* applies v, so that apply_dict[name] = v; for a file that is not tracked or
\* a v above the newest version nothing is appended and vc_dict, apply_queue,
\* apply_dict and the file stay as they are.
C17_AddApply ==
    \A n \in NODES :
        Authoring(n) =>
            \A name \in Names, v \in Versions :
                LET after == vm_add_apply(St(n), name, v)
                IN  IF name \notin DOMAIN vm[n].mgr.vc_dict
                    THEN Frame(St(n), after)
                    ELSE IF Named(n, name, v) > NewestAt(n, name)
                    THEN Frame(St(n), after)
                    ELSE Named(n, name, v) \in InFeed(n, name) =>
                             /\ OneApplyup(St(n), after, FileFeed(n, name),
                                           Named(n, name, v))
                             /\ after.mgr.apply_dict[name] = Named(n, name, v)

\* the author has applied version 1 of the tracked file with add_apply: the
\* version control feed ends with the applyup packet
C17_Witness ==
    /\ Authoring(Author)
    /\ FileName \in DOMAIN vm[Author].mgr.vc_dict
    /\ vm[Author].mgr.apply_dict[FileName] = 1
    /\ 1 \in InFeed(Author, FileName)
    /\ log[Author][VcFid][Len(log[Author][VcFid])].type = APPLYUP
    /\ log[Author][VcFid][Len(log[Author][VcFid])].payload
           = FidPayload(FileFeed(Author, FileName), 1, Zero12)

\* update_file(name, text, dep) at node n made a new version: it returned
\* and the tracked feed of name is one blob longer
Created(n, name, after) ==
    /\ after.exc = ""
    /\ length(after.head[FileFeed(n, name)]) = length(head[n][FileFeed(n, name)]) + 1

\* C16: where update_file(name, T, dep) on the author makes version v of a
\* tracked file, add_apply(name, v) after it, from whatever version is
\* applied, leaves the file with content T.
C16_UpdateThenApply ==
    \A n \in NODES :
        Authoring(n) =>
            \A name \in DOMAIN vm[n].mgr.vc_dict, text \in Texts, dep \in Deps :
                LET made == update_file(St(n), name, text, dep)
                IN  Created(n, name, made) =>
                        vm_add_apply(made, name, NewestAt(n, name) + 1).files[name] = text

\* a feed of node n that was the tracked feed of name and is so no longer:
\* it holds the updfile packet of name and vc_dict names another feed
Superseded(hd, lg, mgr, f, name) ==
    /\ hd[f] # NoFeed
    /\ length(hd[f]) >= 2
    /\ lg[f][2].type = UPDFILE
    /\ lg[f][2].payload.name = name
    /\ name \in DOMAIN mgr.vc_dict
    /\ mgr.vc_dict[name][1] # f
\* emergency_update_file for a tracked file, where a key pair can be made,
\* leaves vc_dict[name] = (e_fid, n_fid), n_fid a fid that named no feed
\* before and is now the child of e_fid
Rotates(n, name, text, dep) ==
    LET st == St(n)
        e_fid == st.mgr.vc_dict[name][2]
        after == emergency_update_file(st, name, text, dep)
        n_fid == after.mgr.vc_dict[name][2]
    IN  /\ after.mgr.vc_dict[name][1] = e_fid
        /\ n_fid \in FreshFids(st)
        /\ after.head[n_fid] # NoFeed
        /\ after.head[n_fid].parent_fid = e_fid
        /\ \E i \in 1..Len(Children(after, e_fid)) : Children(after, e_fid)[i] = n_fid
C18_Rotates ==
    \A n \in NODES :
        (Authoring(n) /\ FreshFids(St(n)) # {}) =>
            \A name \in DOMAIN vm[n].mgr.vc_dict, text \in Texts, dep \in Deps :
                Rotates(n, name, text, dep)
\* no step appends to a feed that is superseded before or after it
C18_Frozen ==
    \A n \in NODES, f \in VFIDS, name \in Names :
        (\/ Superseded(head[n], log[n], vm[n].mgr, f, name)
         \/ Superseded(head'[n], log'[n], vm'[n].mgr, f, name)) =>
            /\ head'[n][f] = head[n][f]
            /\ log'[n][f] = log[n][f]

\* C18: emergency_update_file(name, new, dep) on the author, for a tracked
\* file with vc_dict[name] = (old_fid, e_fid), leaves vc_dict[name] =
\* (e_fid, n_fid) with n_fid freshly made and a child of e_fid; and no call
\* of update_file, add_apply or emergency_update_file, then or later, appends
\* a packet to the superseded old_fid, whose front_seq stays as it is.
C18_EmergencyRotation == []C18_Rotates /\ [][C18_Frozen]_vars
\* the author has rotated the feeds of the file and made an update after it
C18_Witness ==
    /\ Authoring(Author)
    /\ \E f \in VFIDS :
           Superseded(head[Author], log[Author], vm[Author].mgr, f, FileName)
    /\ length(head[Author][FileFeed(Author, FileName)]) >= 5

\* the replica holds every packet and every blob of every feed of the author
Received ==
    /\ vm[Replica].mgr.update_feed # NoFid
    /\ \A f \in VFIDS :
           head[Author][f] # NoFeed =>
               /\ head[Replica][f] # NoFeed
               /\ log[Replica][f] = log[Author][f]
               /\ IsNone(WaitingFor(head[Replica][f], log[Replica][f], blobs[Replica]))
\* the replica's callbacks have bound the version control feed and track the
\* files as the author does
Following ==
    /\ vm[Replica].mgr.vc_feed = VcFid
    /\ vm[Replica].mgr.vc_dict = vm[Author].mgr.vc_dict
\* the version control feed holds an applyup packet
Applied ==
    \E i \in 1..Len(log[Author][VcFid]) : log[Author][VcFid][i].type = APPLYUP

\* C15: a follower that has received every packet and every blob of the
\* update feed, the version control feed, the file feeds and the emergency
\* feeds, each feed in its order and the feeds in any interleaving, and
\* tracks the files, has for every tracked file the version of the last
\* applyup packet in apply_dict, as the author has, and no entry for the
\* file's feed in apply_queue.
C15_Converged ==
    (Received /\ Following /\ Applied) =>
        \A name \in DOMAIN vm[Author].mgr.vc_dict :
            /\ name \in DOMAIN vm[Replica].mgr.apply_dict
            /\ vm[Replica].mgr.apply_dict[name] = vm[Author].mgr.apply_dict[name]
            /\ FileFeed(Author, name) \notin DOMAIN vm[Replica].mgr.apply_queue

\* the packets of file feed f at node n: ischild, updfile, the mkchild of the
\* emergency feed e recorded with it, then chain20 packets only
LayoutOf(n, f, e) ==
    /\ head[n][f] # NoFeed
    /\ Len(log[n][f]) >= 3
    /\ log[n][f][1].type = ISCHILD
    /\ log[n][f][2].type = UPDFILE
    /\ log[n][f][3].type = MKCHILD
    /\ Fid32(log[n][f][3].payload) = e
    /\ \A k \in 4..Len(log[n][f]) : log[n][f][k].type = CHAIN20
\* the layout of the feeds that f superseded: f was the emergency feed of its
\* parent, up to the update feed
RECURSIVE LayoutBefore(_, _)
LayoutBefore(n, f) ==
    IF head[n][f].parent_fid = UpdateFid THEN TRUE
    ELSE /\ LayoutOf(n, head[n][f].parent_fid, f)
         /\ LayoutBefore(n, head[n][f].parent_fid)

\* C21: every feed that is or has been the tracked feed of a file holds
\* ischild at seq 1, updfile at seq 2, the mkchild of the emergency feed
\* recorded with it at seq 3 and chain20 packets from seq 4 on, after any
\* create_new_file, set_update_feed, update_file, add_apply and
\* emergency_update_file on the author.
C21_FileFeedLayout ==
    \A n \in NODES : \A name \in DOMAIN vm[n].mgr.vc_dict :
        /\ LayoutOf(n, vm[n].mgr.vc_dict[name][1], vm[n].mgr.vc_dict[name][2])
        /\ LayoutBefore(n, vm[n].mgr.vc_dict[name][1])
\* the author's file has been updated, its feed rotated, and updated again
C21_Witness ==
    /\ vm[Author].files # NoDict
    /\ FileName \in DOMAIN vm[Author].mgr.vc_dict
    /\ head[Author][FileFeed(Author, FileName)].parent_fid # UpdateFid
    /\ Len(log[Author][head[Author][FileFeed(Author, FileName)].parent_fid]) >= 4
    /\ Len(log[Author][FileFeed(Author, FileName)]) >= 5

\* the base version, the number of update blobs and the version graph of the
\* tracked feed of name at node n
Minv(n, name) == get_upd(head[n][FileFeed(n, name)], log[n][FileFeed(n, name)]).v
Blobs(n, name) == length(head[n][FileFeed(n, name)]) - 3
GraphOf(n, name) == extract_version_graph(St(n), FileFeed(n, name))
\* the dependency written in the blob at seq of the tracked feed
DepAt(n, name, seq) ==
    FromU32BE(PySlice(ChainContent(St(n), FileFeed(n, name), seq).ok, 0, 4))
\* the tracked feed of name owns the versions first..last: access names it for
\* each of them, the edge of each to its dependency is read from the blob at
\* seq 4 + (v - first), and last is the newest version for add_apply and
\* _apply_update
Numbered(n, name, first, last) ==
    /\ ~IsRaised(GraphOf(n, name))
    /\ NewestAt(n, name) = last
    /\ \A v \in first..last :
           /\ v \in DOMAIN GraphOf(n, name).ok.access_dict
           /\ GraphOf(n, name).ok.access_dict[v].fid = FileFeed(n, name)
           /\ v \in DOMAIN GraphOf(n, name).ok.graph
           /\ GraphOf(n, name).ok.graph[v][1] = DepAt(n, name, 4 + (v - first))

RECURSIVE RotationChain(_, _)
RotationChain(st, fid) ==
    IF ~Present(st, fid) THEN <<>>
    ELSE IF IsRaised(get_upd(st.head[fid], st.log[fid])) THEN <<>>
    ELSE IF IsNone(get_upd(st.head[fid], st.log[fid])) THEN <<>>
    ELSE <<fid>> \o RotationChain(st, parent(st.head[fid], st.log[fid]))
MinvOf(st, fid) == get_upd(st.head[fid], st.log[fid]).v
\* the feeds of the chain that hold an update blob of version v
Holders(st, chain, v) ==
    {k \in 1..Len(chain) :
        /\ v - MinvOf(st, chain[k]) \in 1..(length(st.head[chain[k]]) - 3)
        /\ st.log[chain[k]][BlobSeq(MinvOf(st, chain[k]), v)].type = CHAIN20}
\* C23: the feeds of the rotation chain of a file own pairwise disjoint,
\* contiguous version ranges without a gap: the first version of a rotated
\* feed is one more than the last version of the feed it supersedes, every
\* version of the union is held by exactly one feed, and access[v] of
\* extract_version_graph names that feed.
C23_RotationRanges ==
    \A n \in NODES : \A name \in DOMAIN vm[n].mgr.vc_dict :
        LET chain == RotationChain(St(n), FileFeed(n, name))
            first == MinvOf(St(n), chain[Len(chain)]) + 1
        IN  /\ chain # <<>>
            /\ ~IsRaised(GraphOf(n, name))
            /\ \A k \in 1..(Len(chain) - 1) :
                   MinvOf(St(n), chain[k]) + 1
                       = NewestOf(St(n), chain[k + 1]) + 1
            /\ \A v \in first..NewestAt(n, name) :
                   /\ Cardinality(Holders(St(n), chain, v)) = 1
                   /\ v \in DOMAIN GraphOf(n, name).ok.access_dict
                   /\ \E k \in Holders(St(n), chain, v) :
                          GraphOf(n, name).ok.access_dict[v].fid = chain[k]
\* the author's file has a rotated feed and the superseded feed, each with
\* an update blob
C23_Witness ==
    /\ FileName \in DOMAIN vm[Author].mgr.vc_dict
    /\ Len(RotationChain(St(Author), FileFeed(Author, FileName))) = 2
    /\ \A k \in 1..2 :
           length(head[Author][RotationChain(St(Author),
                                             FileFeed(Author, FileName))[k]]) > 3

(* --------------------------- runs of the diff --------------------------- *)
MaxLines == 3
\* the lines of the texts: the empty line and two others
DiffLines == {<<>>, <<1>>, <<2>>}
\* the texts of 1..MaxLines lines; the empty text is the one empty line
DiffTexts == UNION {[1..k -> DiffLines] : k \in 1..MaxLines}
InitDiff ==
    /\ head = [n \in NODES |-> [f \in FIDS |-> NoFeed]]
    /\ log = [n \in NODES |-> [f \in FIDS |-> <<>>]]
    /\ blobs = [n \in NODES |-> {}]
    /\ vm = None
    /\ \E old \in DiffTexts, new \in DiffTexts :
           arg = [old |-> old, new |-> new, cs |-> None, out |-> None,
                  back |-> None]
\* cs = get_changes(old, new)
GetChanges ==
    /\ arg.cs = None
    /\ arg' = [arg EXCEPT !.cs = Ok(get_changes(arg.old, arg.new))]
    /\ UNCHANGED <<head, log, blobs, vm>>
\* out = apply_changes(old, cs)
ApplyChanges ==
    /\ arg.cs # None
    /\ arg.out = None
    /\ arg' = [arg EXCEPT !.out = apply_changes(arg.old, arg.cs.ok)]
    /\ UNCHANGED <<head, log, blobs, vm>>
\* back = apply_changes(out, reverse_changes(cs))
ApplyReversed ==
    /\ arg.out # None
    /\ ~IsRaised(arg.out)
    /\ arg.back = None
    /\ arg' = [arg EXCEPT !.back = apply_changes(arg.out.ok,
                                                 reverse_changes(arg.cs.ok))]
    /\ UNCHANGED <<head, log, blobs, vm>>
NextDiff == GetChanges \/ ApplyChanges \/ ApplyReversed
DiffSpec == InitDiff /\ [][NextDiff]_vars

\* every change of the list is at a 1-based position of the line array it is
\* applied to: an insertion at 1..len+1, a deletion at 1..len
RECURSIVE InRange(_, _)
InRange(lines, changes) ==
    IF changes = <<>> THEN TRUE
    ELSE /\ Head(changes).line_num >= 1
         /\ Head(changes).line_num
                <= Len(lines) + (IF Head(changes).op = OpI THEN 1 ELSE 0)
         /\ InRange(ApplyLoop(lines, <<Head(changes)>>).ok, Tail(changes))
\* C24: apply_changes(old, get_changes(old, new)) is new for all texts old
\* and new, and every line number of the change list is a valid 1-based
\* position of the line array at the moment the change is applied.
C24_RoundTrip ==
    arg.out # None =>
        /\ arg.out = Ok(arg.new)
        /\ InRange(arg.old, arg.cs.ok)
\* a text with a repeated line and an empty line was changed into its lines
\* in another order
C24_Witness ==
    /\ arg.out # None
    /\ arg.old = << <<1>>, <<>>, <<1>> >>
    /\ arg.new = << <<>>, <<1>>, <<1>> >>
    /\ Len(arg.cs.ok) >= 2

\* C25: with cs = get_changes(old, new), applying cs to old and then
\* reverse_changes(cs) to the result gives old again; reverse_changes swaps
\* 'I' and 'D' in every change and reverses the order of the list.
C25_Reversible ==
    arg.back # None =>
        /\ arg.back = Ok(arg.old)
        /\ Len(reverse_changes(arg.cs.ok)) = Len(arg.cs.ok)
        /\ \A i \in 1..Len(arg.cs.ok) :
               LET c == arg.cs.ok[i]
                   r == reverse_changes(arg.cs.ok)[Len(arg.cs.ok) + 1 - i]
               IN  /\ r.line_num = c.line_num
                   /\ r.ln = c.ln
                   /\ r.op = (IF c.op = OpI THEN OpD ELSE OpI)
\* a change list with an insertion and a deletion was applied and undone
C25_Witness ==
    /\ arg.back # None
    /\ \E i, j \in 1..Len(arg.cs.ok) :
           arg.cs.ok[i].op = OpI /\ arg.cs.ok[j].op = OpD
    /\ arg.old # arg.new

\* the manager of n after the step has the maps and the update feed of the
\* manager before it, and its vc_feed is the first child of the update feed
\* where there is one, as it was before
Reloaded(n) ==
    /\ vm'[n].mgr.live
    /\ vm'[n].mgr.vc_dict = vm[n].mgr.vc_dict
    /\ vm'[n].mgr.apply_queue = vm[n].mgr.apply_queue
    /\ vm'[n].mgr.apply_dict = vm[n].mgr.apply_dict
    /\ vm'[n].mgr.update_feed = vm[n].mgr.update_feed
    /\ vm'[n].mgr.vc_feed = vm[n].mgr.vc_feed
    /\ Len(Children(St(n), vm[n].mgr.update_feed)) >= 1
           => vm'[n].mgr.vc_feed = Children(St(n), vm[n].mgr.update_feed)[1]
\* C26: a manager constructed from the snapshot written by _save_config has
\* the vc_dict, apply_queue, apply_dict and update feed of the manager that
\* wrote it, and its vc_feed is bound to the first child of the update feed
\* whenever the update feed has at least one child, as before the dump.
C26_SnapshotRoundTrip ==
    [][\A n \in NODES :
           (vm[n].mgr.update_feed # NoFid /\ Restart(n)) => Reloaded(n)]_vars

\* the versions an applyup packet can name
Targets == 0..(MaxUpd + 1)
\* the feed has its updfile packet
HasUpd(st, fid) ==
    /\ Present(st, fid)
    /\ ~IsRaised(get_upd(st.head[fid], st.log[fid]))
    /\ ~IsNone(get_upd(st.head[fid], st.log[fid]))
\* version v of the feed cannot be applied yet
Deferring(st, fid, v) ==
    IF ~Present(st, fid) THEN TRUE
    ELSE /\ HasUpd(st, fid)
         /\ \/ v > NewestOf(st, fid)
            \/ v = NewestOf(st, fid) /\ Waiting(st, fid)
\* the snapshot on disk is the one of the maps in memory
Persisted(st) ==
    st.cfg = [saved |-> TRUE, vc_dict |-> st.mgr.vc_dict,
              apply_queue |-> st.mgr.apply_queue,
              apply_dict |-> st.mgr.apply_dict, update_fid |-> st.mgr.update_feed]
\* _apply_update(fid, v) on st has only put v into the queue
Deferred(st, fid, v) ==
    LET r == _apply_update(st, fid, [bytes |-> v])
    IN  /\ r.exc = ""
        /\ r.mgr.apply_queue = DictSet(st.mgr.apply_queue, fid, v)
        /\ Persisted(r)
        /\ r.files = st.files
        /\ r.mgr.apply_dict = st.mgr.apply_dict
        /\ r.mgr.vc_dict = st.mgr.vc_dict
        /\ r.head = st.head /\ r.log = st.log /\ r.blobs = st.blobs
\* C27: _apply_update(fid, v) defers where the file feed is absent, v is
\* above the newest version of the feed, or v is the newest version and the
\* chain of the front blob is incomplete: apply_queue[fid] becomes v in place
\* of any earlier pending version, the snapshot is persisted, the file and
\* apply_dict stay as they are; no file is rewritten from a partly received
\* chain.
C27_Defers ==
    \A n \in NODES :
        (vm[n].mgr.live /\ vm[n].mgr.vc_feed # NoFid) =>
            \A fid \in VFIDS : \A v \in Targets :
                Deferring(St(n), fid, v) => Deferred(St(n), fid, v)
\* the replica has queued the newest version of the file feed, whose blob
\* chain is not complete, and has left the file as it was
C27_Witness ==
    /\ vm[Replica].mgr.live
    /\ \E fid \in DOMAIN vm[Replica].mgr.apply_queue :
           /\ HasUpd(St(Replica), fid)
           /\ Waiting(St(Replica), fid)
           /\ vm[Replica].mgr.apply_queue[fid] = NewestOf(St(Replica), fid)
           /\ Deferring(St(Replica), fid, NewestOf(St(Replica), fid) + 1)
    /\ vm[Replica].files = DictSet(NoDict, FileName, << <<>> >>)

\* the file name in the updfile packet of the feed
NameOf(st, fid) == get_upd(st.head[fid], st.log[fid]).name
\* version v of the feed can be applied: it is not above the newest version
\* and the chain of the front blob is complete
Available(st, fid, v) ==
    /\ st.mgr.live
    /\ st.mgr.vc_feed # NoFid
    /\ HasUpd(st, fid)
    /\ v <= NewestOf(st, fid)
    /\ ~Waiting(st, fid)
    /\ NameOf(st, fid) \in DOMAIN st.mgr.apply_dict
    /\ NameOf(st, fid) \in DOMAIN st.files
\* _apply_update(fid, v) on st has applied v
AppliedTo(st, fid, v) ==
    LET r == _apply_update(st, fid, [bytes |-> v])
        name == NameOf(st, fid)
    IN  /\ r.exc = ""
        /\ r.mgr.apply_dict = DictSet(st.mgr.apply_dict, name, v)
        /\ r.mgr.apply_queue = DictDel(st.mgr.apply_queue, fid)
        /\ Persisted(r)
        /\ r.mgr.vc_dict = st.mgr.vc_dict
\* C28: _apply_update(fid, v) with v available and other than
\* apply_dict[name] leaves apply_dict[name] = v, no apply_queue entry for
\* fid, the snapshot equal to the maps in memory, and the apply_dict entries
\* of the other files, the other apply_queue entries and vc_dict unchanged.
C28_ApplyFrame ==
    \A n \in NODES : \A fid \in VFIDS : \A v \in Targets :
        (/\ Available(St(n), fid, v)
         /\ v # vm[n].mgr.apply_dict[NameOf(St(n), fid)])
            => AppliedTo(St(n), fid, v)

\* the state after _apply_update(fid, v), the exception it may end in aside
After(st, fid, v) == [_apply_update(st, fid, [bytes |-> v]) EXCEPT !.exc = ""]
MinAt(path) == CHOOSE i \in 1..Len(path) : \A j \in 1..Len(path) : path[i] <= path[j]
\* the path falls to its least version and rises from it
Valley(path) ==
    /\ mono_dec(SubSeq(path, 1, MinAt(path)))
    /\ mono_inc(SubSeq(path, MinAt(path), Len(path)))
\* the change list in the blob of version v
ChangesOf(st, access_dict, v) ==
    bytes_to_changes(ChainContent(st, access_dict[v].fid,
                                  BlobSeq(access_dict[v].minv, v)).ok).ops
\* the change lists of the versions of path one after the other, each
\* reversed where revert
RECURSIVE ListsOf(_, _, _, _)
ListsOf(st, access_dict, path, revert) ==
    IF path = <<>> THEN <<>>
    ELSE (IF revert THEN reverse_changes(ChangesOf(st, access_dict, Head(path)))
          ELSE ChangesOf(st, access_dict, Head(path)))
         \o ListsOf(st, access_dict, Tail(path), revert)
\* the blobs of all versions of the path but the least can be read
Readable(st, access_dict, path) ==
    \A i \in 1..Len(path) :
        i # MinAt(path) =>
            /\ path[i] \in DOMAIN access_dict
            /\ ~IsRaised(StepChanges(st, access_dict, Steps(<<path[i]>>, FALSE)))
\* C30: for a shortest path p from start to end in the version graph,
\* jump_versions emits the reverted change lists of the versions on the
\* decreasing prefix of p, in path order and without the least version of p,
\* followed by the change lists of the versions on the increasing suffix of
\* p, in path order and without the least version: an increasing path applies
\* every version after start, a decreasing path reverts every version before
\* end, and the least version of a mixed path is neither reverted nor
\* applied.
C30_PathClasses ==
    \A n \in NODES : \A name \in DOMAIN vm[n].mgr.vc_dict :
        \A start \in Targets : \A end \in Targets \ {start} :
            LET ga == GraphOf(n, name)
                p == _bfs(ga.ok.graph, start, end)
            IN  (/\ ~IsRaised(ga)
                 /\ start <= NewestAt(n, name) /\ end <= NewestAt(n, name)
                 /\ ~IsRaised(p) /\ p.ok # <<>>
                 /\ Valley(p.ok)
                 /\ Readable(St(n), ga.ok.access_dict, p.ok))
                => jump_versions(start, end, St(n), FileFeed(n, name))
                     = Ok(ListsOf(St(n), ga.ok.access_dict,
                                  SubSeq(p.ok, 1, MinAt(p.ok) - 1), TRUE)
                          \o ListsOf(St(n), ga.ok.access_dict,
                                     SubSeq(p.ok, MinAt(p.ok) + 1, Len(p.ok)),
                                     FALSE))
\* the version graph of the author's file has a shortest path of four
\* versions that falls twice and then rises
C30_Witness ==
    /\ FileName \in DOMAIN vm[Author].mgr.vc_dict
    /\ ~IsRaised(GraphOf(Author, FileName))
    /\ \E start \in Targets : \E end \in Targets \ {start} :
           LET p == _bfs(GraphOf(Author, FileName).ok.graph, start, end)
           IN  /\ start <= NewestAt(Author, FileName)
               /\ end <= NewestAt(Author, FileName)
               /\ ~IsRaised(p) /\ Len(p.ok) = 4
               /\ MinAt(p.ok) = 3
               /\ Valley(p.ok)
               /\ Readable(St(Author), GraphOf(Author, FileName).ok.access_dict, p.ok)

(* ------------------------ runs of the update feed ----------------------- *)
MaxNote == 1
Notes(lg) == Cardinality({i \in 1..Len(lg) : lg[i].type = PLAIN48})
\* the holder of the update feed's key appends a plain packet to it
AppendNote ==
    /\ Notes(log[Author][UpdateFid]) < MaxNote
    /\ Commit(Author,
              Put(St(Author), UpdateFid,
                  append_bytes(head[Author][UpdateFid], log[Author][UpdateFid],
                               <<7>>, KeyOf(UpdateFid))))
NextBind ==
    \/ \E n \in NODES : SetUpdateFeed(n)
    \/ AppendNote
    \/ \E f \in VFIDS : ReceivePacket(f)
BindSpec == InitVm /\ [][NextBind]_vars

\* the file-feed callback is not registered on the version control feed
NotOnVc ==
    \A n \in NODES :
        vm[n].mgr.vc_feed # NoFid => <<vm[n].mgr.vc_feed, "file">> \notin vm[n].cbs
\* a step in which the follower's update feed gains the packet w
Gains(w) == log'[Replica][UpdateFid] = Append(log[Replica][UpdateFid], w)
\* what the update-feed callback does on that step
Reacts ==
    \A w \in LogWires(Author, UpdateFid) :
        Gains(w) =>
            /\ (/\ vm[Replica].mgr.vc_feed = NoFid
                /\ get_children(head'[Replica][UpdateFid], log'[Replica][UpdateFid]) # <<>>
                /\ head'[Replica][get_children(head'[Replica][UpdateFid],
                                               log'[Replica][UpdateFid])[1]] # NoFeed)
               => /\ vm'[Replica].mgr.vc_feed
                        = get_children(head'[Replica][UpdateFid],
                                       log'[Replica][UpdateFid])[1]
                  /\ <<vm'[Replica].mgr.vc_feed, "vc">> \in vm'[Replica].cbs
            /\ \A f \in VFIDS :
                   (<<f, "file">> \in vm'[Replica].cbs \ vm[Replica].cbs)
                       => w.type = MKCHILD /\ w.payload.fid = f
            /\ (w.type # MKCHILD /\ vm[Replica].mgr.vc_feed # NoFid)
                   => vm'[Replica].cbs = vm[Replica].cbs
Bound ==
    \A n \in NODES :
        vm[n].mgr.vc_feed # NoFid => vm'[n].mgr.vc_feed = vm[n].mgr.vc_feed
\* C31: on a follower, while vc_feed is unbound the first append that gives
\* the update feed a child binds vc_feed to that child and registers the
\* vc-feed callback on it; a bound vc_feed never changes; the file-feed
\* callback is registered only on the append of a mkchild packet and only
\* for the child it names, never on the version control feed, and an append
\* to the update feed that is not a mkchild registers nothing (stated here
\* for a follower whose vc_feed is bound).
C31_UpdateFeedCallback == []NotOnVc /\ [][Reacts /\ Bound]_vars

\* a step in which the follower's feed e, the emergency feed of the tracked
\* file feed of name, gains its mkchild packet w
RotationArrives(name, e, w) ==
    /\ name \in DOMAIN vm[Replica].mgr.vc_dict
    /\ vm[Replica].mgr.vc_dict[name][2] = e
    /\ head[Replica][e] # NoFeed
    /\ parent(head[Replica][e], log[Replica][e]) = vm[Replica].mgr.vc_dict[name][1]
    /\ w.type = MKCHILD
    /\ log'[Replica][e] = Append(log[Replica][e], w)
\* the follower has taken e for the file feed of name and the child that w
\* names for its emergency feed, as the author has
RotatedTo(name, e, w) ==
    /\ vm'[Replica].mgr.vc_dict[name] = <<e, w.payload.fid>>
    /\ name \in DOMAIN vm[Author].mgr.vc_dict
    /\ vm'[Replica].mgr.vc_dict[name] = vm[Author].mgr.vc_dict[name]
    /\ vm'[Replica].mgr.vc_dict[name] = vm'[Replica].cfg.vc_dict[name]
    /\ <<e, "file">> \in vm'[Replica].cbs
    /\ <<vm[Replica].mgr.vc_dict[name][1], "file">> \notin vm'[Replica].cbs
    /\ <<w.payload.fid, "emergency">> \in vm'[Replica].cbs
    /\ <<e, "emergency">> \notin vm'[Replica].cbs
C32_Step ==
    \A name \in Names : \A e \in VFIDS : \A w \in LogWires(Author, e) :
        RotationArrives(name, e, w) => RotatedTo(name, e, w)
\* the packets of the follower's file feed of each name are handled by the
\* file-feed callback as updates of that name
C32_Handled ==
    \A name \in DOMAIN vm[Replica].mgr.vc_dict :
        /\ <<vm[Replica].mgr.vc_dict[name][1], "file">> \in vm[Replica].cbs
        /\ HasUpd(St(Replica), vm[Replica].mgr.vc_dict[name][1])
        /\ NameOf(St(Replica), vm[Replica].mgr.vc_dict[name][1]) = name
\* C32: after the follower has processed the mkchild packet of an emergency
\* feed E (child N) whose parent is the tracked file feed F of a name,
\* vc_dict[name] = (E, N) as on the author after emergency_update_file; the
\* file-feed callback is registered on E and no longer on F, the
\* emergency-feed callback on N and no longer on E, and later chain20
\* packets on E are handled as updates of that file.
C32_FollowerRotation == []C32_Handled /\ [][C32_Step]_vars
\* the follower has rotated to the emergency feed and holds an update in it
C32_Witness ==
    /\ FileName \in DOMAIN vm[Replica].mgr.vc_dict
    /\ vm[Replica].mgr.vc_dict[FileName] = vm[Author].mgr.vc_dict[FileName]
    /\ parent(head[Replica][FileFeed(Replica, FileName)],
              log[Replica][FileFeed(Replica, FileName)]) # VcFid
    /\ HasUpd(St(Replica), parent(head[Replica][FileFeed(Replica, FileName)],
                                  log[Replica][FileFeed(Replica, FileName)]))
    /\ length(head[Replica][FileFeed(Replica, FileName)]) >= 4
    /\ <<FileFeed(Replica, FileName), "file">> \in vm[Replica].cbs

(* -------------------- runs of the updfile encoding ---------------------- *)
\* a 32-bit number as its two 16-bit halves, the high one first
Halves(hi, lo) == <<hi, lo>>
\* n.to_bytes(4, "big")
to_bytes4(n) == <<n[1] \div 256, n[1] % 256, n[2] \div 256, n[2] % 256>>
\* int.from_bytes(b, "big") of at most four bytes
from_bytes(b) ==
    LET q == Zeros(4 - Len(b)) \o b
    IN  Halves(q[1] * 256 + q[2], q[3] * 256 + q[4])
\* the 48 payload bytes that create_upd_pkt fills in
upd_payload(file_name, v_number) ==
    LET fn_len == Len(file_name)
        lead == to_var_int(fn_len) \o file_name \o v_number
    IN  lead \o Zeros(PayloadLen - Len(lead))
\* get_upd_file_name on the payload of the packet at seq 2 (wpkt[16:64])
get_upd_file_name(payload) ==
    LET lv == from_var_int(payload)
        offset == lv[2]
        offset2 == offset + lv[1]
    IN  <<PySlice(payload, offset, offset2),
          from_bytes(PySlice(payload, offset2, offset2 + 3))>>
\* the longest file name of an updfile packet
MaxName == 43
\* file names of 1, 2, MaxName - 1 and MaxName ASCII bytes
UpdNames ==
    {[i \in 1..k |-> IF i = 1 THEN c ELSE 97] :
         k \in {1, 2, MaxName - 1, MaxName}, c \in {97, 98}}
\* base versions: 0, 1, 255, 256, 65535, 2^16, 2^24, 2^32 - 1
UpdVersions ==
    {Halves(0, 0), Halves(0, 1), Halves(0, 255), Halves(0, 256),
     Halves(0, 65535), Halves(1, 0), Halves(256, 0), Halves(65535, 65535)}
InitUpd ==
    /\ head = [n \in NODES |-> [f \in FIDS |-> NoFeed]]
    /\ log = [n \in NODES |-> [f \in FIDS |-> <<>>]]
    /\ blobs = [n \in NODES |-> {}]
    /\ vm = None
    /\ \E name \in UpdNames, b \in UpdVersions :
           arg = [name |-> name, b |-> b, payload |-> None, got |-> None]
\* add_upd_file_name(feed, name, key, b): the payload of the packet written
AddUpdFileName ==
    /\ arg.payload = None
    /\ Len(arg.name) < MaxName + 1
    /\ arg' = [arg EXCEPT !.payload = Ok(upd_payload(arg.name, to_bytes4(arg.b)))]
    /\ UNCHANGED <<head, log, blobs, vm>>
\* get_upd_file_name(feed) of the feed holding that packet
GetUpdFileName ==
    /\ arg.payload # None
    /\ arg.got = None
    /\ arg' = [arg EXCEPT !.got = Ok(get_upd_file_name(arg.payload.ok))]
    /\ UNCHANGED <<head, log, blobs, vm>>
NextUpd == AddUpdFileName \/ GetUpdFileName
UpdSpec == InitUpd /\ [][NextUpd]_vars

\* C33: for every file name of 1 to 43 bytes and every base version b with
\* 0 <= b < 2^32, reading back the updfile packet written by
\* add_upd(feed, name, key, b) returns (name, b).
C33_UpdRoundTrip == arg.got # None => arg.got = Ok(<<arg.name, arg.b>>)

(* ---------------------- runs of the packet decoder ---------------------- *)
\* a wire packet signed with key over the bytes it carries together with
\* (fid, seq, prev_mid): reserved and dmx are whatever the sender wrote
SignedWire(reserved, dmx, fid, seq, prev_mid, payload, key) ==
    WirePacket(reserved, dmx, PLAIN48, payload,
               Sign(key, Expanded(BlockName(reserved, fid, seq, prev_mid), dmx,
                                  PLAIN48, payload)))
\* the wires offered for (fid, seq, prev_mid): the author's packet, one with
\* the dmx of the next seq, one with another prefix, both signed by the key
\* of fid over the bytes carried, the author's packet of the next seq, a
\* packet signed with another key, and the author's packet altered in transit
DecoderWires(fid, seq, prev_mid) ==
    LET pl == RawPayload(<<7>>)
        honest == new_packet(fid, seq, prev_mid, pl, PLAIN48, KeyOf(fid)).wire
    IN  {honest,
         SignedWire(PKT_PREFIX, Sha7(BlockName(PKT_PREFIX, fid, seq + 1, prev_mid)),
                    fid, seq, prev_mid, pl, KeyOf(fid)),
         SignedWire("tiny-v01", Sha7(BlockName(PKT_PREFIX, fid, seq, prev_mid)),
                    fid, seq, prev_mid, pl, KeyOf(fid)),
         new_packet(fid, seq + 1, prev_mid, pl, PLAIN48, KeyOf(fid)).wire,
         new_packet(fid, seq, prev_mid, pl, PLAIN48, EvilKey).wire}
        \cup Tampered(honest)
MaxSeq == 3
InitDecoder ==
    /\ head = [n \in NODES |-> [f \in FIDS |-> NoFeed]]
    /\ log = [n \in NODES |-> [f \in FIDS |-> <<>>]]
    /\ blobs = [n \in NODES |-> {}]
    /\ vm = None
    /\ \E fid \in FIDS, seq \in 1..MaxSeq :
       \E prev_mid \in {Fid20(fid), AltMid} :
       \E wire \in DecoderWires(fid, seq, prev_mid) :
           arg = [fid |-> fid, seq |-> seq, prev_mid |-> prev_mid,
                  wire |-> wire, done |-> FALSE, pkt |-> None]
\* pkt = pkt_from_wire(fid, seq, prev_mid, wire)
PktFromWire ==
    /\ ~arg.done
    /\ arg' = [arg EXCEPT !.done = TRUE,
                          !.pkt = pkt_from_wire(arg.fid, arg.seq, arg.prev_mid,
                                                arg.wire)]
    /\ UNCHANGED <<head, log, blobs, vm>>
NextDecoder == PktFromWire
DecoderSpec == InitDecoder /\ [][NextDecoder]_vars

\* C34: a wire packet is accepted by pkt_from_wire only if its dmx field is
\* sha256(prefix || fid || seq || prev_mid)[0..7], its 8 reserved bytes are
\* the protocol prefix and its signature verifies under fid, also when the
\* signature is a valid one by fid over the bytes the wire carries.
C34_DecoderRecomputes ==
    (arg.done /\ arg.pkt # None) =>
        /\ arg.wire.dmx = Sha7(BlockName(PKT_PREFIX, arg.fid, arg.seq, arg.prev_mid))
        /\ arg.wire.reserved = PKT_PREFIX
        /\ arg.wire.signature.key = KeyOf(arg.fid)

(* -------------------- failure inside append_blob ------------------------ *)
\* content lengths of a chain without blobs, with one blob and with two
CrashLens == {5, 30, MaxContent}
InitBlobCrash ==
    /\ head = [n \in NODES |-> [f \in FIDS |->
                 IF n = Author /\ f = 1
                 THEN create_feed(1, 0, Fid20(1), 0, ZeroFid) ELSE NoFeed]]
    /\ log = [n \in NODES |-> [f \in FIDS |-> <<>>]]
    /\ blobs = [n \in NODES |-> {}]
    /\ arg = None
    /\ vm = None
\* the process stops inside append_blob: after the first k blob files are
\* written, or, for k past the number of blobs, inside append_packet after
\* the packet is written to the log and before the header is rewritten
CrashInAppendBlob(f, L, k) ==
    /\ CanAppend(Author, f)
    /\ Len(log[Author][f]) - length(head[Author][f]) < MaxTorn
    /\ LET feed == head[Author][f]
           made == create_chain(feed.fid, feed.front_seq, feed.front_mid,
                                Content(L), KeyOf(f))
           n == Len(made[2])
       IN  /\ k \in 1..(n + 1)
           /\ blobs' = [blobs EXCEPT ![Author] =
                  WriteChain(@, Last20(made[1].wire.payload),
                             SubSeq(made[2], 1, IF k > n THEN n ELSE k))]
           /\ IF k > n
              THEN Stored(Author, f,
                          append_packet_torn(feed, log[Author][f], made[1]))
              ELSE UNCHANGED <<head, log>>
    /\ UNCHANGED <<arg, vm>>
NextBlobCrash ==
    \/ \E b \in PlainPayloads : AppendBytes(1, b)
    \/ \E L \in CrashLens : AppendBlob(1, L)
    \/ \E L \in CrashLens, k \in 1..3 : CrashInAppendBlob(1, L, k)
BlobCrashSpec == InitBlobCrash /\ [][NextBlobCrash]_vars

\* where the header's front_seq advanced to a chain20 packet, that packet is
\* the last record of the log and the first blob of its chain is stored
HeaderAfterChain ==
    \A f \in FIDS :
        (/\ Exists(Author, f)
         /\ head'[Author][f].front_seq = head[Author][f].front_seq + 1
         /\ log'[Author][f] # <<>>
         /\ log'[Author][f][Len(log'[Author][f])].type = CHAIN20)
        => LET w == log'[Author][f][Len(log'[Author][f])]
           IN  \/ Last20(w.payload) = NullPtr
               \/ HasBlobFile(blobs'[Author], Last20(w.payload))
\* right after append_blob returns, the feed waits for no blob
CompleteAfterAppend ==
    \A f \in FIDS : \A L \in CrashLens :
        AppendBlob(f, L) =>
            IsNone(waiting_for_blob(head'[Author][f], log'[Author][f],
                                    blobs'[Author]))
\* C35: in every step, those ending in a process failure inside append_blob
\* included, a header whose front_seq advanced to the new chain20 packet has
\* that packet in the log and the first blob chunk of its chain stored; and
\* when append_blob completes on the author, every chunk of the chain is
\* stored, so that waiting_for_blob(feed) is None immediately after.
C35_AppendBlobOrder == [][HeaderAfterChain /\ CompleteAfterAppend]_vars

(* ------------------ packets and blobs fed to a replica ------------------ *)
\* arg: the blobs that have been handed to the replica
InitFed ==
    /\ head = [n \in NODES |-> [f \in FIDS |->
                 IF f = 1 THEN create_feed(1, 0, Fid20(1), 0, ZeroFid)
                 ELSE NoFeed]]
    /\ log = [n \in NODES |-> [f \in FIDS |-> <<>>]]
    /\ blobs = [n \in NODES |-> {}]
    /\ arg = [blobs |-> {}]
    /\ vm = None
\* verify_and_append_blob(feed, blob) on the replica
FeedBlob(b) ==
    /\ b \notin arg.blobs
    /\ blobs' = [blobs EXCEPT ![Replica] =
                    verify_and_append_blob(head[Replica][1], log[Replica][1],
                                           blobs[Replica], b)[2]]
    /\ arg' = [arg EXCEPT !.blobs = arg.blobs \cup {b}]
    /\ UNCHANGED <<head, log, vm>>
NextFed ==
    \/ \E b \in PlainPayloads : AppendBytes(1, b)
    \/ \E L \in CrashLens : AppendBlob(1, L)
    \/ \E w \in LogWires(Author, 1) : Deliver(1, w)
    \/ \E bf \in blobs[Author] : FeedBlob(bf.blob)
FedSpec == InitFed /\ [][NextFed]_vars

\* the chain of every chain20 packet below the front is stored whole and
\* every packet below the front can be read
BelowFrontComplete ==
    LET feed == head[Replica][1]
        lg == log[Replica][1]
    IN  \A k \in Seqs(feed) :
            k < feed.front_seq =>
                /\ lg[k - feed.anchor_seq].type = CHAIN20 =>
                       IsNone(WaitLoop(blobs[Replica],
                                       Last20(lg[k - feed.anchor_seq].payload)))
                /\ get_payload(feed, lg, blobs[Replica], k) # Raised("OSError")
\* a packet is appended only to a feed that waits for no blob
AppendsWhenComplete ==
    Len(log'[Replica][1]) > Len(log[Replica][1]) =>
        IsNone(waiting_for_blob(head[Replica][1], log[Replica][1],
                                blobs[Replica]))
\* C36: on a replica fed through verify_and_append_bytes and
\* verify_and_append_blob every chain20 packet at a seq below front_seq has
\* its whole blob chain stored and get_payload succeeds for every seq below
\* front_seq: no packet is appended while waiting_for_blob(feed) is not None.
C36_OnlyFrontIncomplete == []BelowFrontComplete /\ [][AppendsWhenComplete]_vars

(* ------------------ appends to a superseded file feed ------------------- *)
MaxOver == 1
\* the file feeds of the author that an emergency feed has superseded
Overridable ==
    {f \in VFIDS :
        /\ HasUpd(St(Author), f)
        /\ \E e \in VFIDS :
               /\ HasUpd(St(Author), e)
               /\ parent(head[Author][e], log[Author][e]) = f
               /\ length(head[Author][f]) - 3
                      - (MinvOf(St(Author), e) - MinvOf(St(Author), f)) < MaxOver}
\* the holder of the key of a superseded feed appends an update blob to it
AppendSuperseded(f) ==
    /\ f \in Overridable
    /\ LET st == St(Author)
           res == append_blob_to_feed(st.head[f], st.log[f], st.blobs,
                      changes_to_bytes(get_changes(<< <<>> >>, << <<9>> >>), 0),
                      KeyOf(f))
       IN  Commit(Author, [st EXCEPT !.head[f] = res[1], !.log[f] = res[2],
                                     !.blobs = res[3]])
OverCalls == {Author} \X {FileName} \X Texts \X Deps
NextOver ==
    \/ SetUpdateFeed(Author)
    \/ \E c \in OverCalls : UpdateFile(c[1], c[2], c[3], c[4])
    \/ \E c \in OverCalls : EmergencyUpdateFile(c[1], c[2], c[3], c[4])
    \/ \E f \in VFIDS : AppendSuperseded(f)
OverSpec == InitVm /\ [][NextOver]_vars

\* the dependency written in the blob of version v of feed e
DepIn(st, e, v) ==
    FromU32BE(PySlice(ChainContent(st, e, BlobSeq(MinvOf(st, e), v)).ok, 0, 4))
\* C37: after an emergency rotation from feed F to feed E, for every version
\* v whose blob is in E, extract_version_graph(E) maps access[v] to E and
\* jump_versions reads the blob of v from E, however many chain20 packets
\* the holder of F's key has appended to F since.
C37_NoOverride ==
    \A name \in DOMAIN vm[Author].mgr.vc_dict :
        LET st == St(Author)
            e == FileFeed(Author, name)
        IN  Len(RotationChain(st, e)) >= 2 =>
                /\ ~IsRaised(GraphOf(Author, name))
                /\ \A v \in (MinvOf(st, e) + 1)..NewestOf(st, e) :
                       /\ v \in DOMAIN GraphOf(Author, name).ok.access_dict
                       /\ GraphOf(Author, name).ok.access_dict[v].fid = e
                       /\ jump_versions(DepIn(st, e, v), v, st, e)
                              = Ok(ChangesOf(st, v :> [fid |-> e,
                                                       minv |-> MinvOf(st, e)], v))

(* ------------------------ the content of a version --------------------- *)
\* the text of version v of the file whose rotation chain is chain: the
\* empty file for version 0, otherwise the change list of the blob of v
\* applied to the text of the version it depends on; None where a blob of
\* the path is not at hand or cannot be read
RECURSIVE TextOf(_, _, _)
TextOf(st, chain, v) ==
    IF v = 0 THEN Ok(<< <<>> >>)
    ELSE IF v < 0 \/ Holders(st, chain, v) = {} THEN None
    ELSE LET f == chain[CHOOSE k \in Holders(st, chain, v) : TRUE]
             content == ChainContent(st, f, BlobSeq(MinvOf(st, f), v))
             c == IF IsRaised(content) THEN content
                  ELSE bytes_to_changes(content.ok)
         IN  IF IsRaised(c) THEN None
             ELSE IF c.dep >= v THEN None
             ELSE IF IsNone(TextOf(st, chain, c.dep)) THEN None
             ELSE IF IsRaised(apply_changes(TextOf(st, chain, c.dep).ok, c.ops))
             THEN None
             ELSE apply_changes(TextOf(st, chain, c.dep).ok, c.ops)
\* C38: in every state, on the author and on a follower, if
\* apply_dict[name] = v then the content of the file name is the content of
\* version v: the change lists along the dependency path from 0 to v applied
\* to the empty file of version 0, read from the feeds of the author.
C38_ApplyConsistent ==
    \A n \in NODES :
        \A name \in DOMAIN vm[n].mgr.apply_dict \cap DOMAIN vm[n].mgr.vc_dict :
            LET st == St(Author)
                t == TextOf(st, RotationChain(st, FileFeed(Author, name)),
                            vm[n].mgr.apply_dict[name])
            IN  /\ name \in DOMAIN vm[n].files
                /\ ~IsNone(t)
                /\ vm[n].files[name] = t.ok

(* -------------------------- the version tree ---------------------------- *)
\* the dependencies a call of update_file may name
TreeDeps == -(MaxUpd + 2)..(MaxUpd + 1)
\* the versions below v that the graph joins to v
DepsOf(graph, v) == {i \in 1..Len(graph[v]) : graph[v][i] < v}
\* update_file(name, text, dep) in the author's state appends a blob only
\* for a dependency that exists, and the blob names that dependency
AppendsOnExisting(name) ==
    \A dep \in TreeDeps :
        LET st == St(Author)
            text == << <<1>>, <<2>> >>
            fid == FileFeed(Author, name)
            d == FromNewest(dep, NewestAt(Author, name))
            r == update_file(st, name, text, dep)
        IN  /\ (d < 0 \/ d > NewestAt(Author, name)) => r.log = st.log
            /\ r.log # st.log =>
                   /\ r.log[fid] # st.log[fid]
                   /\ DepIn(r, fid, NewestOf(r, fid)) = d
\* C39: the version graph authored through update_file and
\* emergency_update_file is a tree rooted at version 0: every version
\* v >= 1 has exactly one dependency d with 0 <= d < v, also for a
\* dependency given as a negative index and across rotations; update_file
\* appends nothing for a dependency that does not exist; and for all versions
\* a # b between 0 and the newest one _bfs finds a path from a to b.
C39_VersionTree ==
    \A name \in DOMAIN vm[Author].mgr.vc_dict :
        LET ga == GraphOf(Author, name)
            newest == NewestAt(Author, name)
        IN  /\ ~IsRaised(ga)
            /\ \A v \in 1..newest :
                   /\ v \in DOMAIN ga.ok.graph
                   /\ Cardinality(DepsOf(ga.ok.graph, v)) = 1
                   /\ \A i \in DepsOf(ga.ok.graph, v) : ga.ok.graph[v][i] >= 0
            /\ \A a \in 0..newest : \A b \in (0..newest) \ {a} :
                   LET p == _bfs(ga.ok.graph, a, b)
                   IN  /\ ~IsRaised(p)
                       /\ p.ok # <<>>
                       /\ p.ok[1] = a
                       /\ p.ok[Len(p.ok)] = b
            /\ (vm[Author].mgr.live /\ name \in DOMAIN vm[Author].files)
                   => AppendsOnExisting(name)
\* the author's file has versions in a rotated feed and in the feed it
\* superseded, one of them not depending on the version before it
C39_Witness ==
    /\ FileName \in DOMAIN vm[Author].mgr.vc_dict
    /\ Len(RotationChain(St(Author), FileFeed(Author, FileName))) = 2
    /\ NewestAt(Author, FileName) >= 3
    /\ ~IsRaised(GraphOf(Author, FileName))
    /\ \E v \in 2..NewestAt(Author, FileName) :
           /\ v \in DOMAIN GraphOf(Author, FileName).ok.graph
           /\ GraphOf(Author, FileName).ok.graph[v][1] < v - 1

(* --------------------- want-driven synchronisation ---------------------- *)
\* content lengths of the author's chains: inline, one blob, two blobs
WantLens == {5, InlineMax, InlineMax + 1, 30, 60, MaxContent - 3, MaxContent}
InitWant ==
    /\ head = [n \in NODES |-> [f \in FIDS |->
                 IF f = 1 THEN create_feed(1, 0, Fid20(1), 0, ZeroFid)
                 ELSE NoFeed]]
    /\ log = [n \in NODES |-> [f \in FIDS |-> <<>>]]
    /\ blobs = [n \in NODES |-> {}]
    /\ arg = None
    /\ vm = None
\* the replica sends get_want(feed); the peer, which holds the author's feed,
\* answers a request for a packet with the packet of that seq and a request
\* for a blob with the blob of that pointer; the replica hands the answer to
\* verify_and_append_bytes or verify_and_append_blob
AnswerWant ==
    LET feed == head[Replica][1]
        want == get_want(feed, log[Replica][1], blobs[Replica])
    IN  /\ ~IsRaised(want)
        /\ IF want.len = 43
           THEN /\ want.seq \in Seqs(head[Author][1])
                /\ Stored(Replica, 1,
                          LET v == verify_and_append_bytes(feed, log[Replica][1],
                                       get_wire(head[Author][1], log[Author][1],
                                                want.seq))
                          IN  <<v[2], v[3]>>)
                /\ UNCHANGED blobs
           ELSE /\ HasBlobFile(blobs[Author], want.ptr)
                /\ blobs' = [blobs EXCEPT ![Replica] =
                       verify_and_append_blob(feed, log[Replica][1], blobs[Replica],
                           ReadBlobFile(blobs[Author], want.ptr))[2]]
                /\ UNCHANGED <<head, log>>
        /\ UNCHANGED <<arg, vm>>
NextWant ==
    \/ \E b \in PlainPayloads : AppendBytes(1, b)
    \/ \E L \in WantLens : AppendBlob(1, L)
    \/ AnswerWant
\* the replica keeps asking and every request is answered
WantSpec == InitWant /\ [][NextWant]_vars /\ WF_vars(AnswerWant)

\* the replica holds the author's feed and waits for no blob
Synced ==
    /\ head[Replica][1].front_seq = head[Author][1].front_seq
    /\ IsNone(waiting_for_blob(head[Replica][1], log[Replica][1], blobs[Replica]))
\* an answer changes the replica only by a longer feed or one more blob
AnswerProgress ==
    \/ head'[Replica][1].front_seq > head[Replica][1].front_seq
    \/ blobs[Replica] # blobs'[Replica] /\ blobs[Replica] \subseteq blobs'[Replica]
\* C40: when the replica keeps sending get_want(feed) and every request is
\* answered with the packet or blob it names and handed to
\* verify_and_append_bytes or verify_and_append_blob, the replica's front_seq
\* eventually equals the author's with waiting_for_blob(feed) = None, and
\* every answer makes progress.
C40_WantTerminates == []<>Synced /\ [][AnswerWant => AnswerProgress]_vars
====
